---- MODULE Spec2Model ----
(***************************************************************************)
(* A model of the Monopoly economy and turn engine (src/src/game): the     *)
(* player account (money, holdings, buildings, liquidation), the property  *)
(* ledger (purchase, rent), the auction protocol and the controller's      *)
(* dispatch of roll / buy / auction / bid / withdraw / end-turn intents.   *)
(*                                                                         *)
(* Spaces are numbered by their index in TRACK (0..39); the extra space    *)
(* "In Jail" (JAIL_POSITION = ("In Jail", 10)) is space 40.                *)
(***************************************************************************)
EXTENDS Integers, Sequences, FiniteSets, TLC

\* ---------------------------------------------------------------- bounds
\* the account specification draws money and charges from the multiples of
\* ten up to 10 * MaxMoneySteps
MaxMoneySteps == 6
\* largest building count in an initial state of the account specification
MaxHouses == 2
\* number of bid / withdraw intents taken by one auction
MaxAuctionOps == 6

\* number of auctions started in one run
MaxAuctions == 1
\* number of dice rolls of one run of the controller specification
MaxRolls == 1
\* number of cards of a deck: the first MaxCards entries of its card table
MaxCards == 3

\* ------------------------------------------------------ program constants
STARTING_MONEY == 1500
PASS_GO_BONUS == 200
BAIL_AMOUNT == 50
MAX_JAIL_TURNS == 2
BOARD_SIZE == 40
JAIL_POSITION == 40
MINIMUM_BID_INCREMENT == 10
MIN_PLAYERS == 2
MAX_PLAYERS == 4
MAX_BUILDINGS == 5
SPEEDING_FINE == 15

\* Python's None; a value x that may be None is held as Some(x) = <<x>>
None == << >>
Some(x) == <<x>>
Value(o) == o[1]

\* ----------------------------------------------------------- rule tables
\* kind of each space of TRACK, by index + 1
TRACK ==
  << "empty",   "color",   "card",    "color",   "tax",
     "railroad","color",   "card",    "color",   "color",
     "empty",   "color",   "utility", "color",   "color",
     "railroad","color",   "card",    "color",   "color",
     "freeparking","color","card",    "color",   "color",
     "railroad","color",   "color",   "utility", "color",
     "gotojail","color",   "color",   "card",    "color",
     "railroad","card",    "color",   "tax",     "color" >>

Spaces == 0 .. BOARD_SIZE
Kind(s) == IF s = JAIL_POSITION THEN "jail" ELSE TRACK[s + 1]

PROPERTIES == { s \in 0 .. BOARD_SIZE - 1 : Kind(s) = "color" }
RAILROADS  == { s \in 0 .. BOARD_SIZE - 1 : Kind(s) = "railroad" }
UTILS      == { s \in 0 .. BOARD_SIZE - 1 : Kind(s) = "utility" }
Ownable    == PROPERTIES \cup RAILROADS \cup UTILS
IsProperty(s) == s \in Ownable

PROPPRICES ==
  <<   0,  60,   0,  60,   0, 200, 100,   0, 100, 120,
       0, 140, 150, 140, 160, 200, 180,   0, 180, 200,
       0, 220,   0, 220, 240, 200, 260, 260, 150, 280,
       0, 300, 300,   0, 320, 200,   0, 350,   0, 400 >>

MORTGAGEPRICES ==
  <<   0,  30,   0,  30,   0, 100,  50,   0,  50,  60,
       0,  70,  75,  70,  80, 100,  90,   0,  90, 100,
       0, 110,   0, 110, 120, 100, 130, 130,  75, 140,
       0, 150, 150,   0, 160, 100,   0, 175,   0, 200 >>

BUILDINGCOSTS ==
  <<   0,  50,   0,  50,   0,   0,  50,   0,  50,  50,
       0, 100,   0, 100, 100,   0, 100,   0, 100, 100,
       0, 150,   0, 150, 150,   0, 150, 150,   0, 150,
       0, 200, 200,   0, 200,   0,   0, 200,   0, 200 >>

\* colour group of each colour-set property (0 for the other spaces)
PROPCOLORS ==
  <<   0,   1,   0,   1,   0,   0,   2,   0,   2,   2,
       0,   3,   0,   3,   3,   0,   4,   0,   4,   4,
       0,   5,   0,   5,   5,   0,   6,   6,   0,   6,
       0,   7,   7,   0,   7,   0,   0,   8,   0,   8 >>

\* rent schedule (Base, Color Set, House 1..4, Hotel) of a colour property
RENTPRICES(s) ==
  CASE s = 1  -> <<2, 4, 10, 30, 90, 160, 250>>
    [] s = 3  -> <<4, 8, 20, 60, 180, 320, 450>>
    [] s \in {6, 8}   -> <<6, 12, 30, 90, 270, 400, 550>>
    [] s = 9  -> <<8, 16, 40, 100, 300, 450, 600>>
    [] s \in {11, 13} -> <<10, 20, 50, 150, 450, 625, 750>>
    [] s = 14 -> <<12, 24, 60, 180, 500, 700, 900>>
    [] s \in {16, 18} -> <<14, 28, 70, 200, 550, 750, 950>>
    [] s = 19 -> <<16, 32, 80, 220, 600, 800, 1000>>
    [] s \in {21, 23} -> <<18, 36, 90, 250, 700, 875, 1050>>
    [] s = 24 -> <<20, 40, 100, 300, 750, 925, 1100>>
    [] s \in {26, 27} -> <<22, 44, 110, 330, 800, 975, 1150>>
    [] s = 29 -> <<24, 48, 120, 360, 850, 1025, 1200>>
    [] s \in {31, 32} -> <<26, 52, 130, 390, 900, 1100, 1275>>
    [] s = 34 -> <<28, 56, 150, 450, 1000, 1200, 1400>>
    [] s = 37 -> <<35, 70, 175, 500, 1100, 1300, 1500>>
    [] s = 39 -> <<50, 100, 200, 600, 1400, 1700, 2000>>

RAILROADRENT(level) ==
  CASE level = "Base" -> 25 [] level = "Own 2" -> 50
    [] level = "Own 3" -> 100 [] level = "Own 4" -> 200

UTILRENT(level) == IF level = "Own 2" THEN 10 ELSE 4

COLOR_SET_REQUIREMENTS(c) == IF c \in {1, 8} THEN 2 ELSE 3

price(s)         == PROPPRICES[s + 1]
mortgagePrice(s) == MORTGAGEPRICES[s + 1]
buildCost(s)     == BUILDINGCOSTS[s + 1]
color(s)         == PROPCOLORS[s + 1]

\* ----------------------------------------------------------------- state
VARIABLES
  numPlayers,            \* len(Game.players)
  money,                 \* Player.money
  properties,            \* Player.properties: the holdings list, in order
  buildings,             \* Player.buildings: dict, in insertion order
  is_bankrupt,           \* Player.is_bankrupt
  location,              \* Player.location, as a space number
  is_current_turn,       \* Player.is_current_turn
  is_in_jail,            \* Player.is_in_jail
  jail_turn_count,       \* Player.jail_turn_count
  is_owned,              \* Property.is_owned
  is_mortgaged,          \* Property.is_mortgaged
  house_count,           \* ColorSetProperty.house_count
  current_profit_level,  \* Property.current_profit_level
  should_show_ui,        \* BoardSpace.should_show_ui
  auction,               \* Property.auction (None, or the Auction object)
  auction_log,           \* history: the intents each auction has taken
  current_turn,          \* Game.current_turn, a seat id
  current_turn_location, \* Game.current_turn_location, a space number
  dice_rolled,           \* Game.dice_rolled
  is_visible,            \* DiceSet.is_visible
  rolls,                 \* number of dice rolls made so far
  auctions,              \* history: the number of auctions started
  deck,                  \* Deck.deck of the deck of a card space
  current_card,          \* Deck.current_card, a card id
  dealt,                 \* history: the cards dealt since the deck was built
  op                     \* the operation that produced this state

vars == << numPlayers, money, properties, buildings, is_bankrupt, location,
           is_current_turn, is_in_jail, jail_turn_count, is_owned, is_mortgaged, house_count,
           current_profit_level, should_show_ui, auction, auction_log,
           current_turn,
           current_turn_location, dice_rolled, is_visible, rolls, auctions,
           deck, current_card, dealt, op >>

Players == 0 .. numPlayers - 1

\* the deck variables; the operations that draw no card leave them alone
cards == << deck, current_card, dealt >>

\* ------------------------------------------------- the mutable game state
\* The objects the account and ledger methods read and write, as one record,
\* so that a method with several steps is one function from state to state.
World ==
  [ money |-> money, properties |-> properties, buildings |-> buildings,
    is_bankrupt |-> is_bankrupt, location |-> location,
    is_in_jail |-> is_in_jail, jail_turn_count |-> jail_turn_count,
    is_owned |-> is_owned, is_mortgaged |-> is_mortgaged,
    house_count |-> house_count ]

SetWorld(w) ==
  /\ money' = w.money
  /\ properties' = w.properties
  /\ buildings' = w.buildings
  /\ is_bankrupt' = w.is_bankrupt
  /\ location' = w.location
  /\ is_in_jail' = w.is_in_jail
  /\ jail_turn_count' = w.jail_turn_count
  /\ is_owned' = w.is_owned
  /\ is_mortgaged' = w.is_mortgaged
  /\ house_count' = w.house_count

\* `x in list`
InSeq(x, seq) == \E i \in 1 .. Len(seq) : seq[i] = x

\* number of occurrences of x in a list
Count(x, seq) == Cardinality({ i \in 1 .. Len(seq) : seq[i] = x })

\* position of the key in the buildings dict, 0 when absent
KeyIndex(dict, s) ==
  IF \E i \in 1 .. Len(dict) : dict[i].prop = s
  THEN CHOOSE i \in 1 .. Len(dict) : dict[i].prop = s
  ELSE 0

\* dict[s], for a key that is present
BuildingsOf(dict, s) == dict[KeyIndex(dict, s)].n

RemoveAt(seq, i) == SubSeq(seq, 1, i - 1) \o SubSeq(seq, i + 1, Len(seq))

\* --------------------------------------------------------- Player account
receive_money(w, p, amount) == [w EXCEPT !.money[p] = @ + amount]

\* Player.sell_building: one building off, half its cost credited, the dict
\* entry deleted when it reaches 0
sell_building(w, p, s) ==
  LET i == KeyIndex(w.buildings[p], s) IN
  IF i = 0 \/ w.buildings[p][i].n <= 0 THEN w
  ELSE
    LET w1 == [w EXCEPT !.buildings[p][i].n = @ - 1,
                        !.house_count[s] = @ - 1]
        w2 == receive_money(w1, p, buildCost(s) \div 2)
    IN IF w2.buildings[p][i].n = 0
       THEN [w2 EXCEPT !.buildings[p] = RemoveAt(@, i)]
       ELSE w2

\* Player.mortgage_property
mortgage_property(w, p, s) ==
  IF ~InSeq(s, w.properties[p]) \/ w.is_mortgaged[s] THEN w
  ELSE receive_money([w EXCEPT !.is_mortgaged[s] = TRUE], p, mortgagePrice(s))

\* what the building test of Player._sell_available_building would be if it
\* found no building to sell
HasBuildingIgnored(w, p) == FALSE

\* Player._sell_available_building: the first dict entry with a building
HasBuilding(w, p) == \E i \in 1 .. Len(w.buildings[p]) : w.buildings[p][i].n > 0

_sell_available_building(w, p) ==
  LET d == w.buildings[p]
      i == CHOOSE j \in 1 .. Len(d) :
             d[j].n > 0 /\ \A k \in 1 .. j - 1 : d[k].n <= 0
  IN sell_building(w, p, d[i].prop)

\* Player._mortgage_available_property: the first unmortgaged holding
HasUnmortgaged(w, p) ==
  \E i \in 1 .. Len(w.properties[p]) : ~w.is_mortgaged[w.properties[p][i]]

_mortgage_available_property(w, p) ==
  LET h == w.properties[p]
      i == CHOOSE j \in 1 .. Len(h) :
             ~w.is_mortgaged[h[j]] /\ \A k \in 1 .. j - 1 : w.is_mortgaged[h[k]]
  IN mortgage_property(w, p, h[i])

\* what Player._declare_bankruptcy would be if it left the money as it is
_declare_bankruptcy_keep_money(w, p) ==
  [w EXCEPT !.is_bankrupt[p] = TRUE]

\* Player._declare_bankruptcy
_declare_bankruptcy(w, p) ==
  [w EXCEPT !.is_bankrupt[p] = TRUE, !.money[p] = 0]

\* what Player._handle_bankruptcy would be with `if` in place of `while`
_handle_bankruptcy_once(w, p, required_amount) ==
  IF w.money[p] < required_amount /\ ~w.is_bankrupt[p]
  THEN IF HasBuilding(w, p) THEN _sell_available_building(w, p)
       ELSE IF HasUnmortgaged(w, p) THEN _mortgage_available_property(w, p)
       ELSE _declare_bankruptcy(w, p)
  ELSE w

\* Player._handle_bankruptcy: the liquidation loop
RECURSIVE _handle_bankruptcy(_, _, _)
_handle_bankruptcy(w, p, required_amount) ==
  IF w.money[p] < required_amount /\ ~w.is_bankrupt[p]
  THEN IF HasBuilding(w, p)
       THEN _handle_bankruptcy(_sell_available_building(w, p), p, required_amount)
       ELSE IF HasUnmortgaged(w, p)
       THEN _handle_bankruptcy(_mortgage_available_property(w, p), p, required_amount)
       ELSE _declare_bankruptcy(w, p)
  ELSE w

\* Player.deduct_money
deduct_money(w, p, amount) ==
  IF w.money[p] >= amount
  THEN [w EXCEPT !.money[p] = @ - amount]
  ELSE _handle_bankruptcy(w, p, amount)

\* Player._update_board_position (Player.move / move_by_spaces)
TrackIndex(s) == IF s = JAIL_POSITION THEN 10 ELSE s

\* what _update_board_position would be if only a move beyond index 0 paid
PassesGoBeyond(current_index, spaces) ==
  spaces > 0 /\ current_index + spaces > BOARD_SIZE

PassesGo(current_index, spaces) ==
  spaces > 0 /\ ( current_index + spaces >= BOARD_SIZE
                  \/ (current_index + spaces) % BOARD_SIZE = 0 )

_update_board_position(w, p, spaces) ==
  LET current_index == TrackIndex(w.location[p])
      new_index == (current_index + spaces) % BOARD_SIZE
      w1 == IF PassesGo(current_index, spaces)
            THEN receive_money(w, p, PASS_GO_BONUS)
            ELSE w
  IN [w1 EXCEPT !.location[p] = new_index]

\* what Player.move_to_space would be if it always moved by the difference of
\* the two indexes
move_to_space_direct(w, p, target_position) ==
  _update_board_position(w, p, target_position - TrackIndex(w.location[p]))

\* Player.move_to_space (Player.moveTo)
move_to_space(w, p, target_position) ==
  LET current_position == TrackIndex(w.location[p])
      spaces_to_move ==
        IF current_position > target_position
        THEN (BOARD_SIZE - current_position) + target_position
        ELSE target_position - current_position
  IN _update_board_position(w, p, spaces_to_move)

\* ColorSetProperty.check_even_building (builtEvenly)
check_even_building(w, p, s) ==
  LET color_set_properties ==
        { i \in 1 .. Len(w.properties[p]) :
            w.properties[p][i] \in PROPERTIES
            /\ color(w.properties[p][i]) = color(s) }
  IN IF Cardinality(color_set_properties) <= 1 THEN TRUE
     ELSE \A i \in color_set_properties :
            ~( w.properties[p][i] # s
               /\ w.house_count[s] > w.house_count[w.properties[p][i]] )

\* Player.construct_building (Player.build): the dict entry is created before
\* the checks, so it stays (with 0) when the construction is refused
WithBuildingsEntry(w, p, s) ==
  IF KeyIndex(w.buildings[p], s) = 0
  THEN [w EXCEPT !.buildings[p] = Append(@, [prop |-> s, n |-> 0])]
  ELSE w

CanConstruct(w, p, s) ==
  LET w0 == WithBuildingsEntry(w, p, s) IN
  ~( BuildingsOf(w0.buildings[p], s) >= MAX_BUILDINGS
     \/ w0.money[p] < buildCost(s)
     \/ ~check_even_building(w0, p, s) )

construct_building(w, p, s) ==
  LET w0 == WithBuildingsEntry(w, p, s)
      i == KeyIndex(w0.buildings[p], s)
  IN IF ~CanConstruct(w, p, s) THEN w0
     ELSE deduct_money([w0 EXCEPT !.buildings[p][i].n = @ + 1,
                                  !.house_count[s] = @ + 1],
                       p, buildCost(s))

\* ------------------------------------------------------- property ledger
\* Property.can_be_purchased
can_be_purchased(w, p, s) == ~w.is_owned[s] /\ w.money[p] >= price(s)

\* what Property.purchase_property would be without its can_be_purchased test
purchase_property_unchecked(w, p, s) ==
  LET w1 == deduct_money([w EXCEPT !.is_owned[s] = TRUE], p, price(s))
  IN [w1 EXCEPT !.properties[p] = Append(@, s)]

\* Property.purchase_property
purchase_property(w, p, s) ==
  IF ~can_be_purchased(w, p, s) THEN w
  ELSE LET w1 == deduct_money([w EXCEPT !.is_owned[s] = TRUE], p, price(s))
       IN [w1 EXCEPT !.properties[p] = Append(@, s)]

\* Property.purchase_at_auction (buyAuc)
purchase_at_auction(w, p, s, bid_amount) ==
  LET w1 == deduct_money([w EXCEPT !.is_owned[s] = TRUE], p, bid_amount)
  IN [w1 EXCEPT !.properties[p] = Append(@, s)]

\* isinstance(property_obj, ColorSet) in Player.get_owned_color_sets: the
\* board's colour properties are built as ColorSetProperty, the base class of
\* ColorSet, so the test is false for every one of them
IsInstanceColorSet(s) == FALSE

\* Player.get_owned_color_sets: the set of complete colours
get_owned_color_sets(w, p) ==
  { c \in 1 .. 8 :
      Cardinality({ i \in 1 .. Len(w.properties[p]) :
                      IsInstanceColorSet(w.properties[p][i])
                      /\ color(w.properties[p][i]) = c })
        >= COLOR_SET_REQUIREMENTS(c) }

\* the first player of the list that holds s (0 .. n-1), or n when nobody does
FirstHolder(w, n, s) ==
  IF \E q \in 0 .. n - 1 : InSeq(s, w.properties[q])
  THEN CHOOSE q \in 0 .. n - 1 :
         InSeq(s, w.properties[q])
         /\ \A r \in 0 .. q - 1 : ~InSeq(s, w.properties[r])
  ELSE n

CountKind(w, p, kind) ==
  Cardinality({ i \in 1 .. Len(w.properties[p]) : Kind(w.properties[p][i]) = kind })

\* what update_rent_level would be if a railroad never left the Base level
update_rent_level_base(w, n, s) ==
  IF Kind(s) = "color" /\ w.house_count[s] \in 1 .. 4
  THEN <<"House", w.house_count[s]>>
  ELSE IF Kind(s) = "color" /\ w.house_count[s] = 5 THEN <<"Hotel", 5>>
  ELSE <<"Base", 0>>

\* Property.update_rent_level (update): the new current_profit_level of s
update_rent_level(w, n, s) ==
  CASE Kind(s) = "color" ->
         IF w.house_count[s] \in 1 .. 4 THEN <<"House", w.house_count[s]>>
         ELSE IF w.house_count[s] = 5 THEN <<"Hotel", 5>>
         ELSE IF \E q \in 0 .. n - 1 : color(s) \in get_owned_color_sets(w, q)
         THEN <<"Color Set", 0>>
         ELSE <<"Base", 0>>
    [] Kind(s) = "railroad" ->
         LET q == FirstHolder(w, n, s)
             railroad_count == IF q = n THEN 0 ELSE CountKind(w, q, "railroad")
         IN CASE railroad_count = 2 -> <<"Own 2", 0>>
              [] railroad_count = 3 -> <<"Own 3", 0>>
              [] railroad_count = 4 -> <<"Own 4", 0>>
              [] OTHER -> <<"Base", 0>>
    [] Kind(s) = "utility" ->
         LET q == FirstHolder(w, n, s)
             utility_count == IF q = n THEN 0 ELSE CountKind(w, q, "utility")
         IN IF utility_count >= 2 THEN <<"Own 2", 0>> ELSE <<"Base", 0>>

\* Property.calculate_rent, with no argument as charge_rent and
\* can_charge_rent call it: a utility then multiplies by dice_roll = 0
calculate_rent(s, level) ==
  CASE Kind(s) = "color" ->
         RENTPRICES(s)[ CASE level[1] = "Base" -> 1
                          [] level[1] = "Color Set" -> 2
                          [] level[1] = "House" -> level[2] + 2
                          [] level[1] = "Hotel" -> 7 ]
    [] Kind(s) = "railroad" -> RAILROADRENT(level[1])
    [] Kind(s) = "utility" -> UTILRENT(level[1]) * 0

\* Property.can_charge_rent (canCharge)
can_charge_rent(w, p, s, level) ==
  /\ w.is_owned[s]
  /\ ~InSeq(s, w.properties[p])
  /\ (Kind(s) # "utility" => w.money[p] >= calculate_rent(s, level))

\* what Property.charge_rent would be without its mortgage test
charge_rent_unguarded(w, p, s, level) ==
  deduct_money(w, p, calculate_rent(s, level))

\* Property.charge_rent (charge)
charge_rent(w, p, s, level) ==
  IF ~w.is_mortgaged[s]
  THEN deduct_money(w, p, calculate_rent(s, level))
  ELSE w

\* ---------------------------------------------------------------- Auction
\* Auction.__init__ followed by start_auction, as handle_auction_button_click
\* runs them.  players[i + 1] is the bid of seat i.  current_turn is the seat
\* of the tuple self.current_turn (the bid stored in that tuple is read only
\* right after it is fetched from self.players).
\* what Auction.__init__ would build with every bid starting at 0
InitialBidsZero(n) == [i \in 1 .. n |-> Some(0)]

InitialBids(n) == [i \in 1 .. n |-> None]

NewAuction(n) ==
  [ is_running |-> TRUE,
    players |-> InitialBids(n),
    current_price |-> 0,
    next_bid |-> 0 + MINIMUM_BID_INCREMENT,
    current_turn |-> 0 ]

\* Auction._get_active_player_count
_get_active_player_count(a) ==
  Cardinality({ i \in 1 .. Len(a.players) : a.players[i] # None })

\* Auction._get_highest_bidder: the first seat with the highest bid, or None
_get_highest_bidder(a) ==
  IF \A i \in 1 .. Len(a.players) : a.players[i] = None THEN None
  ELSE Some((CHOOSE i \in 1 .. Len(a.players) :
               /\ a.players[i] # None
               /\ \A j \in 1 .. Len(a.players) :
                    a.players[j] # None =>
                      \/ Value(a.players[j]) < Value(a.players[i])
                      \/ (a.players[j] = a.players[i] /\ j >= i)) - 1)

\* Auction._find_next_active_player, called with an active bidder present
RECURSIVE _find_next_active_player(_)
_find_next_active_player(a) ==
  LET next_player_id == (a.current_turn + 1) % Len(a.players)
      a1 == [a EXCEPT !.current_turn = next_player_id]
  IN IF a1.players[next_player_id + 1] # None THEN a1
     ELSE _find_next_active_player(a1)

\* what Auction._end_auction would be if, with no bid recorded, it sold the
\* property to the seat whose turn it is at the current price
_end_auction_to_turn_holder(a, w, s) ==
  LET a1 == [a EXCEPT !.is_running = FALSE]
      winning_bidder == _get_highest_bidder(a1)
  IN [ a |-> a1,
       w |-> IF winning_bidder # None
             THEN purchase_at_auction(w, Value(winning_bidder), s,
                                      Value(a1.players[Value(winning_bidder) + 1]))
             ELSE purchase_at_auction(w, a1.current_turn, s, a1.current_price) ]

\* Auction._end_auction and _sell_property_to_winner; the result is the pair
\* of the auction and the game state
_end_auction(a, w, s) ==
  LET a1 == [a EXCEPT !.is_running = FALSE]
      winning_bidder == _get_highest_bidder(a1)
  IN [ a |-> a1,
       w |-> IF winning_bidder # None
             THEN purchase_at_auction(w, Value(winning_bidder), s,
                                      Value(a1.players[Value(winning_bidder) + 1]))
             ELSE w ]

\* what Auction._advance_turn would be if it ended the auction only with no
\* active player left
_advance_turn_none_left(a, w, s) ==
  IF _get_active_player_count(a) < 1
  THEN _end_auction(a, w, s)
  ELSE [ a |-> _find_next_active_player(a), w |-> w ]

\* Auction._advance_turn
_advance_turn(a, w, s) ==
  IF _get_active_player_count(a) <= 1
  THEN _end_auction(a, w, s)
  ELSE [ a |-> _find_next_active_player(a), w |-> w ]

\* what Auction.place_bid would be without raising next_bid
place_bid_same_ask(a, w, s) ==
  _advance_turn([a EXCEPT !.players[a.current_turn + 1] = Some(a.next_bid),
                          !.current_price = a.next_bid],
                w, s)

\* Auction.place_bid (bidBtnAction)
place_bid(a, w, s) ==
  _advance_turn([a EXCEPT !.players[a.current_turn + 1] = Some(a.next_bid),
                          !.current_price = a.next_bid,
                          !.next_bid = a.next_bid + MINIMUM_BID_INCREMENT],
                w, s)

\* Auction.withdraw_from_auction (withdrawBtnAction)
withdraw_from_auction(a, w, s) ==
  _advance_turn([a EXCEPT !.players[a.current_turn + 1] = None], w, s)

\* ------------------------------------------------------------------ jail
\* what Player.send_to_jail would be if it left the jail-turn counter alone
send_to_jail_keep_count(w, p) ==
  [w EXCEPT !.is_in_jail[p] = TRUE, !.location[p] = JAIL_POSITION]

\* Player.send_to_jail
send_to_jail(w, p) ==
  [w EXCEPT !.is_in_jail[p] = TRUE, !.jail_turn_count[p] = 0,
            !.location[p] = JAIL_POSITION]

\* what Player._escape_jail would be if it left the jail-turn counter alone
_escape_jail_keep_count(w, p) == [w EXCEPT !.is_in_jail[p] = FALSE]

\* Player._escape_jail
_escape_jail(w, p) ==
  [w EXCEPT !.is_in_jail[p] = FALSE, !.jail_turn_count[p] = 0]

\* Player.pay_jail_bail
pay_jail_bail(w, p) == _escape_jail(deduct_money(w, p, BAIL_AMOUNT), p)

\* what Player.handle_jail_turn would be if doubles also paid the bail
handle_jail_turn_bail_on_doubles(w, p, d1, d2) ==
  IF ~w.is_in_jail[p] THEN w
  ELSE IF d1 = d2
  THEN _update_board_position(pay_jail_bail(w, p), p, d1 + d2)
  ELSE LET w1 == [w EXCEPT !.jail_turn_count[p] = @ + 1]
       IN IF w1.jail_turn_count[p] > MAX_JAIL_TURNS
          THEN _update_board_position(pay_jail_bail(w1, p), p, d1 + d2)
          ELSE w1

\* Player.handle_jail_turn (jailTurn), with the two dice just rolled
handle_jail_turn(w, p, d1, d2) ==
  IF ~w.is_in_jail[p] THEN w
  ELSE IF d1 = d2
  THEN _update_board_position(_escape_jail(w, p), p, d1 + d2)
  ELSE LET w1 == [w EXCEPT !.jail_turn_count[p] = @ + 1]
       IN IF w1.jail_turn_count[p] > MAX_JAIL_TURNS
          THEN _update_board_position(pay_jail_bail(w1, p), p, d1 + d2)
          ELSE w1

\* ------------------------------------------------------------------ decks
\* the card spaces whose decks are modelled: the first Community Chest space
\* and the first Chance space of the track
DeckSpaces == { s \in 0 .. 7 : Kind(s) = "card" }

\* Deck._create_fresh_deck: one card of each id
CardIds == 0 .. MaxCards - 1

\* random.shuffle of a fresh deck: any order of the card ids
Shuffles ==
  { f \in [1 .. MaxCards -> CardIds] :
      \A i, j \in 1 .. MaxCards : f[i] = f[j] => i = j }

\* what Deck._draw_card would be if it read the top card without removing it
_draw_card_keep_top(d, fresh) ==
  LET d0 == IF Len(d) = 0 THEN fresh ELSE d
  IN [ card |-> d0[Len(d0)], deck |-> d0 ]

\* Deck._draw_card: the card popped and the deck it leaves; fresh is the
\* order shuffle_deck gives the rebuilt deck
_draw_card(d, fresh) ==
  LET d0 == IF Len(d) = 0 THEN fresh ELSE d
  IN [ card |-> d0[Len(d0)], deck |-> SubSeq(d0, 1, Len(d0) - 1) ]

\* the specifications that draw no card hold the decks fixed and empty
NoDecks ==
  /\ deck = [s \in DeckSpaces |-> << >>]
  /\ current_card = [s \in DeckSpaces |-> 0]
  /\ dealt = [s \in DeckSpaces |-> << >>]

\* ------------------------------------------------------------ controller
\* FREESPACES: Go, Just Visiting, In Jail
FREESPACES == {0, 10, JAIL_POSITION}

\* BoardSpace.__init__ sets should_show_ui; EmptySpace clears it.  "In Jail"
\* is built as an EmptySpace and then replaced by a JailSpace.
InitialShow == [s \in Spaces |-> s \notin {0, 10}]

\* Game._should_display_dice, once the game has started
_should_display_dice ==
  IF dice_rolled THEN FALSE
  ELSE IF is_in_jail[current_turn] \/ location[current_turn] = 0 THEN TRUE
  ELSE ~should_show_ui[current_turn_location]

\* Game._handle_dice_display: the new DiceSet.is_visible
_handle_dice_display ==
  LET shown == IF _should_display_dice /\ ~is_visible THEN TRUE ELSE is_visible
  IN IF dice_rolled /\ shown
        /\ (is_in_jail[current_turn] \/ ~should_show_ui[current_turn_location])
     THEN FALSE
     ELSE shown

\* history: the last operation and its arguments
OpAmt(name, seat, space, amount) ==
  [name |-> name, seat |-> seat, space |-> space, amount |-> amount]

Op(name, seat, space) == OpAmt(name, seat, space, 0)

\* the state after Game.start_game, for each number of players the startup
\* window accepts and each starting player random.choice may pick
Init ==
  /\ NoDecks
  /\ numPlayers \in MIN_PLAYERS .. MAX_PLAYERS
  /\ money = [p \in Players |-> STARTING_MONEY]
  /\ properties = [p \in Players |-> << >>]
  /\ buildings = [p \in Players |-> << >>]
  /\ is_bankrupt = [p \in Players |-> FALSE]
  /\ location = [p \in Players |-> 0]
  /\ is_in_jail = [p \in Players |-> FALSE]
  /\ jail_turn_count = [p \in Players |-> 0]
  /\ current_turn \in Players
  /\ is_current_turn = [p \in Players |-> p = current_turn]
  /\ is_owned = [s \in Ownable |-> FALSE]
  /\ is_mortgaged = [s \in Ownable |-> FALSE]
  /\ house_count = [s \in PROPERTIES |-> 0]
  /\ current_profit_level = [s \in Ownable |-> <<"Base", 0>>]
  /\ should_show_ui = InitialShow
  /\ auction = [s \in Ownable |-> None]
  /\ auction_log = [s \in Ownable |-> << >>]
  /\ current_turn_location = 0
  /\ dice_rolled = FALSE
  /\ is_visible = FALSE
  /\ rolls = 0
  /\ auctions = 0
  /\ op = Op("start_game", current_turn, 0)

\* Game._handle_keyboard_input with K_SPACE, and Game._handle_dice_roll.
\* The history records the two dice as the digits of op.amount.
KeySpace ==
  /\ UNCHANGED cards
  /\ rolls < MaxRolls
  /\ is_visible
  /\ ~should_show_ui[current_turn_location]
  /\ \E d1 \in 1 .. 6, d2 \in 1 .. 6 :
       /\ SetWorld(IF ~is_in_jail[current_turn]
                   THEN _update_board_position(World, current_turn, d1 + d2)
                   ELSE handle_jail_turn(World, current_turn, d1, d2))
       /\ op' = OpAmt("roll", current_turn, current_turn_location,
                      10 * d1 + d2)
  /\ dice_rolled' = TRUE
  /\ rolls' = rolls + 1
  /\ UNCHANGED << numPlayers, is_current_turn, current_profit_level,
                  should_show_ui, auction, auction_log, current_turn,
                  current_turn_location, is_visible, auctions >>

\* the body of Game.advance_turn up to its recursive call: the turn passes
\* from the current player to the next seat.  c is the controller's part of
\* the state, with the number of players examined so far.
_pass_turn(c) ==
  LET show1 == IF c.current_turn_location \notin FREESPACES
               THEN [c.should_show_ui EXCEPT ![c.current_turn_location] = TRUE]
               ELSE c.should_show_ui
      next_player_id == (c.current_turn + 1) % numPlayers
      loc == location[next_player_id]
  IN [ c EXCEPT !.current_turn = next_player_id,
                !.current_turn_location = loc,
                !.should_show_ui = [show1 EXCEPT ![loc] = FALSE],
                !.is_current_turn =
                  [c.is_current_turn EXCEPT ![c.current_turn] = FALSE,
                                            ![next_player_id] = TRUE],
                !.examined = c.examined + 1 ]

\* what Game.advance_turn would be without its recursive call on a bankrupt
\* player
advance_turn_no_skip(c) ==
  _pass_turn(c)

\* Game.advance_turn.  The method calls itself while the player it has just
\* selected is bankrupt.  When numPlayers players in a row were bankrupt,
\* every player is, and the recursion never finds a player to stop at:
\* Python ends it with RecursionError, recorded in the field overflow.
RECURSIVE advance_turn(_)
advance_turn(c) ==
  LET c1 == _pass_turn(c)
  IN IF ~is_bankrupt[c1.current_turn] THEN c1
     ELSE IF c1.examined >= numPlayers THEN [c1 EXCEPT !.overflow = TRUE]
     ELSE advance_turn(c1)

\* the controller's state after j more passes of the turn
RECURSIVE _unwind(_, _)
_unwind(c, j) ==
  IF j = 0 THEN c ELSE _unwind(_pass_turn(c), j - 1)

\* the "End Turn" button in Game._handle_mouse_input.  When the recursion of
\* advance_turn overflows, the interpreter's stack limit decides at which
\* player it is cut off, so any player may be the current one afterwards.
ClickEndTurn ==
  \E j \in 0 .. MAX_PLAYERS - 1 :
    LET r == advance_turn([ current_turn |-> current_turn,
                            current_turn_location |-> current_turn_location,
                            should_show_ui |-> should_show_ui,
                            is_current_turn |-> is_current_turn,
                            examined |-> 0,
                            overflow |-> FALSE ])
        c == IF r.overflow THEN _unwind(r, j) ELSE r
    IN /\ j < numPlayers
       /\ r.overflow \/ j = 0
       /\ current_turn' = c.current_turn
       /\ current_turn_location' = c.current_turn_location
       /\ should_show_ui' = c.should_show_ui
       /\ is_current_turn' = c.is_current_turn
       /\ dice_rolled' = FALSE
       /\ op' = OpAmt(IF r.overflow THEN "RecursionError" ELSE "end_turn",
                      current_turn, current_turn_location, r.examined)
       /\ UNCHANGED << numPlayers, money, properties, buildings, is_bankrupt,
                       location, is_in_jail, jail_turn_count, is_owned,
                       is_mortgaged, house_count, current_profit_level,
                       auction, auction_log, is_visible, rolls, auctions >>
       /\ UNCHANGED cards

\* the "Buy" button in Game._handle_property_clicks, and
\* Property.handle_buy_button_click
ClickBuy ==
  /\ UNCHANGED cards
  /\ IsProperty(current_turn_location)
  /\ can_be_purchased(World, current_turn, current_turn_location)
  /\ SetWorld(purchase_property(World, current_turn, current_turn_location))
  /\ should_show_ui' = [should_show_ui EXCEPT ![current_turn_location] = FALSE]
  /\ op' = Op("buy", current_turn, current_turn_location)
  /\ UNCHANGED << numPlayers, is_current_turn, current_profit_level, auction,
                  auction_log, current_turn, current_turn_location,
                  dice_rolled, is_visible, rolls, auctions >>

\* the "Auction" button in Game._handle_property_clicks, and
\* Property.handle_auction_button_click
ClickAuction ==
  /\ UNCHANGED cards
  /\ auctions < MaxAuctions
  /\ IsProperty(current_turn_location)
  /\ should_show_ui' = [should_show_ui EXCEPT ![current_turn_location] = FALSE]
  /\ auction' = [auction EXCEPT ![current_turn_location] =
                   Some(NewAuction(numPlayers))]
  /\ auction_log' = [auction_log EXCEPT ![current_turn_location] = << >>]
  /\ op' = Op("auction", current_turn, current_turn_location)
  /\ UNCHANGED << numPlayers, money, properties, buildings, is_bankrupt,
                  location, is_current_turn, is_in_jail, jail_turn_count,
                  is_owned, is_mortgaged, house_count, current_profit_level,
                  current_turn, current_turn_location, dice_rolled,
                  is_visible, rolls >>
  /\ auctions' = auctions + 1

\* one entry of auction_log: the intent, the seat whose turn it was, and the
\* bid it recorded for that seat (None for a withdrawal)
LogEntry(name, a, a2) ==
  [name |-> name, seat |-> a.current_turn,
   bid |-> a2.players[a.current_turn + 1]]

\* the "Bid" button of the auction in Game._handle_property_clicks.  The
\* handler reads prop.auction.bidBtn, the button Auction builds as
\* bid_button; the click is modelled as reaching bidBtnAction.
ClickBid ==
  /\ UNCHANGED cards
  /\ IsProperty(current_turn_location)
  /\ auction[current_turn_location] # None
  /\ Len(auction_log[current_turn_location]) < MaxAuctionOps
  /\ LET s == current_turn_location
         a == Value(auction[s])
         r == place_bid(a, World, s)
     IN /\ SetWorld(r.w)
        /\ auction' = [auction EXCEPT ![s] = Some(r.a)]
        /\ auction_log' = [auction_log EXCEPT ![s] =
                             Append(@, LogEntry("bid", a, r.a))]
  /\ op' = Op("bid", current_turn, current_turn_location)
  /\ UNCHANGED << numPlayers, is_current_turn, current_profit_level,
                  should_show_ui, current_turn, current_turn_location,
                  dice_rolled, is_visible, rolls, auctions >>

\* the "Withdraw" button of the auction in Game._handle_property_clicks
ClickWithdraw ==
  /\ UNCHANGED cards
  /\ IsProperty(current_turn_location)
  /\ auction[current_turn_location] # None
  /\ Len(auction_log[current_turn_location]) < MaxAuctionOps
  /\ LET s == current_turn_location
         a == Value(auction[s])
         r == withdraw_from_auction(a, World, s)
     IN /\ SetWorld(r.w)
        /\ auction' = [auction EXCEPT ![s] = Some(r.a)]
        /\ auction_log' = [auction_log EXCEPT ![s] =
                             Append(@, LogEntry("withdraw", a, r.a))]
  /\ op' = Op("withdraw", current_turn, current_turn_location)
  /\ UNCHANGED << numPlayers, is_current_turn, current_profit_level,
                  should_show_ui, current_turn, current_turn_location,
                  dice_rolled, is_visible, rolls, auctions >>

\* one pass of Game.loop with no input event: _handle_dice_display,
\* _update_current_turn_location and _update_property_interactions
Tick ==
  LET s == location[current_turn]
      level == update_rent_level(World, numPlayers, s)
      charges == should_show_ui[s] /\ can_charge_rent(World, current_turn, s, level)
  IN /\ is_visible' = _handle_dice_display
     /\ current_turn_location' = s
     /\ IF IsProperty(s)
        THEN /\ current_profit_level' = [current_profit_level EXCEPT ![s] = level]
             /\ SetWorld(IF charges
                         THEN charge_rent(World, current_turn, s, level)
                         ELSE World)
             /\ should_show_ui' =
                  IF charges \/ (should_show_ui[s] /\ InSeq(s, properties[current_turn]))
                  THEN [should_show_ui EXCEPT ![s] = FALSE]
                  ELSE should_show_ui
        ELSE /\ SetWorld(World)
             /\ UNCHANGED << current_profit_level, should_show_ui >>
     /\ op' = Op("tick", current_turn, s)
     /\ UNCHANGED << numPlayers, is_current_turn, auction, auction_log,
                     current_turn, dice_rolled, rolls, auctions >>
     /\ UNCHANGED cards

Next ==
  \/ KeySpace
  \/ ClickEndTurn
  \/ ClickBuy
  \/ ClickAuction
  \/ ClickBid
  \/ ClickWithdraw
  \/ Tick

Spec == Init /\ [][Next]_vars

\* ------------------------------------------- the account, called directly
\* The operations of Player and of the board spaces applied to accounts in
\* any condition: the initial states draw the money, the holdings, the
\* mortgages and the buildings of two players from bounded sets.

\* TAXPRICES
TAXPRICES(s) == CASE s = 4 -> 200 [] s = 38 -> 100

TaxSpaces == { s \in 0 .. 39 : TRACK[s + 1] = "tax" }

\* Mediterranean Avenue, Baltic Avenue, Reading Railroad, Electric Company
AccountOrder == << 1, 3, 5, 12 >>
AccountSpaces == { AccountOrder[i] : i \in 1 .. Len(AccountOrder) }

MoneyValues == { 10 * k : k \in 0 .. MaxMoneySteps } \cup { STARTING_MONEY }
Charges == { 10 * k : k \in 1 .. MaxMoneySteps }

\* the holdings list of p under the owner map, in board order
HoldingsOf(owner, p) ==
  LET Held(s) == owner[s] = p IN SelectSeq(AccountOrder, Held)

\* the buildings dict of p: one entry per held property with a building
BuildingsDictOf(owner, houses, p) ==
  LET Built(s) == s \in PROPERTIES /\ owner[s] = p /\ houses[s] > 0
      keys == SelectSeq(AccountOrder, Built)
  IN [ i \in 1 .. Len(keys) |-> [prop |-> keys[i], n |-> houses[keys[i]]] ]

InitAccount ==
  /\ NoDecks
  /\ numPlayers = MIN_PLAYERS
  /\ \E owner \in [AccountSpaces -> 0 .. MIN_PLAYERS],
        mortgaged \in SUBSET AccountSpaces,
        houses \in [AccountSpaces \cap PROPERTIES -> 0 .. MaxHouses] :
       /\ \A s \in mortgaged : owner[s] \in Players
       /\ \A s \in DOMAIN houses : houses[s] > 0 => owner[s] \in Players
       /\ properties = [p \in Players |-> HoldingsOf(owner, p)]
       /\ buildings = [p \in Players |-> BuildingsDictOf(owner, houses, p)]
       /\ is_owned = [s \in Ownable |-> s \in AccountSpaces /\ owner[s] \in Players]
       /\ is_mortgaged = [s \in Ownable |-> s \in mortgaged]
       /\ house_count = [s \in PROPERTIES |->
                           IF s \in DOMAIN houses THEN houses[s] ELSE 0]
  /\ \E m \in MoneyValues : money = [p \in Players |->
                                       IF p = 0 THEN m ELSE STARTING_MONEY]
  /\ is_bankrupt = [p \in Players |-> FALSE]
  /\ location = [p \in Players |-> 0]
  /\ is_in_jail = [p \in Players |-> FALSE]
  /\ jail_turn_count = [p \in Players |-> 0]
  /\ current_turn = 0
  /\ is_current_turn = [p \in Players |-> p = current_turn]
  /\ current_profit_level = [s \in Ownable |-> <<"Base", 0>>]
  /\ should_show_ui = InitialShow
  /\ auction = [s \in Ownable |-> None]
  /\ auction_log = [s \in Ownable |-> << >>]
  /\ current_turn_location = 0
  /\ dice_rolled = FALSE
  /\ is_visible = FALSE
  /\ rolls = 0
  /\ auctions = 0
  /\ op = Op("init", 0, 0)

\* one operation is applied to each initial account; what it leaves alone
AccountFrame ==
  /\ UNCHANGED cards
  /\ op.name = "init"
  /\ UNCHANGED << numPlayers, is_current_turn, should_show_ui, auction,
                  auction_log, current_turn, current_turn_location,
                  dice_rolled, is_visible, rolls, auctions >>

\* Player.deduct_money (Player.charge)
DeductMoney ==
  /\ AccountFrame
  /\ \E p \in Players, amount \in Charges :
       /\ SetWorld(deduct_money(World, p, amount))
       /\ op' = OpAmt("deduct_money", p, 0, amount)
  /\ UNCHANGED current_profit_level

\* Player._handle_bankruptcy (Player.bankrupt)
HandleBankruptcy ==
  /\ AccountFrame
  /\ \E p \in Players, required_amount \in Charges :
       /\ SetWorld(_handle_bankruptcy(World, p, required_amount))
       /\ op' = OpAmt("_handle_bankruptcy", p, 0, required_amount)
  /\ UNCHANGED current_profit_level

\* ChanceActions.paySpeedingFine
paySpeedingFine(w, p) == [w EXCEPT !.money[p] = @ - SPEEDING_FINE]

PaySpeedingFine ==
  /\ AccountFrame
  /\ \E p \in Players :
       /\ SetWorld(paySpeedingFine(World, p))
       /\ op' = OpAmt("paySpeedingFine", p, 0, SPEEDING_FINE)
  /\ UNCHANGED current_profit_level

\* TaxSpace.collect_tax: the state it leaves (the amount it returns is
\* tax_amount, or the player's money when that is less)
collect_tax(w, p, s) ==
  IF w.money[p] >= TAXPRICES(s)
  THEN deduct_money(w, p, TAXPRICES(s))
  ELSE deduct_money(w, p, w.money[p])

CollectTax ==
  /\ AccountFrame
  /\ \E p \in Players, s \in TaxSpaces :
       /\ SetWorld(collect_tax(World, p, s))
       /\ op' = OpAmt("collect_tax", p, s, TAXPRICES(s))
  /\ UNCHANGED current_profit_level

\* Property.update followed by Property.charge_rent, for a player on s
ChargeRent ==
  /\ AccountFrame
  /\ \E p \in Players, s \in AccountSpaces :
       LET level == update_rent_level(World, numPlayers, s) IN
       /\ current_profit_level' = [current_profit_level EXCEPT ![s] = level]
       /\ SetWorld(charge_rent(World, p, s, level))
       /\ op' = OpAmt("charge_rent", p, s, calculate_rent(s, level))

\* Player.construct_building (Player.build)
ConstructBuilding ==
  /\ AccountFrame
  /\ \E p \in Players, s \in AccountSpaces \cap PROPERTIES :
       /\ SetWorld(construct_building(World, p, s))
       /\ op' = OpAmt("construct_building", p, s, buildCost(s))
  /\ UNCHANGED current_profit_level

\* Property.purchase_property (buyBtnAction) called for any player and space
PurchaseProperty ==
  /\ AccountFrame
  /\ \E p \in Players, s \in AccountSpaces :
       /\ SetWorld(purchase_property(World, p, s))
       /\ op' = OpAmt("purchase_property", p, s, price(s))
  /\ UNCHANGED current_profit_level

NextAccount ==
  \/ PurchaseProperty
  \/ DeductMoney
  \/ HandleBankruptcy
  \/ PaySpeedingFine
  \/ CollectTax
  \/ ChargeRent
  \/ ConstructBuilding

SpecAccount == InitAccount /\ [][NextAccount]_vars

\* the accounts again, under the two operations that liquidate
NextLiquidate ==
  \/ DeductMoney
  \/ HandleBankruptcy

SpecLiquidate == InitAccount /\ [][NextLiquidate]_vars

\* the accounts in which the buildings of every colour group stand evenly,
\* as constructions by the holder leave them
BuiltEvenly ==
  \A s1, s2 \in PROPERTIES :
    color(s1) = color(s2) => house_count[s1] - house_count[s2] <= 1

InitEven == InitAccount /\ BuiltEvenly

SpecEven == InitEven /\ [][NextLiquidate]_vars

\* ------------------------------------------------- movement, called directly
\* Player.move applied to a player standing on any of the 40 track positions
InitMove ==
  /\ NoDecks
  /\ numPlayers = MIN_PLAYERS
  /\ money = [p \in Players |-> STARTING_MONEY]
  /\ properties = [p \in Players |-> << >>]
  /\ buildings = [p \in Players |-> << >>]
  /\ is_bankrupt = [p \in Players |-> FALSE]
  /\ \E i \in 0 .. BOARD_SIZE - 1 :
       location = [p \in Players |-> IF p = 0 THEN i ELSE 0]
  /\ is_in_jail = [p \in Players |-> FALSE]
  /\ jail_turn_count = [p \in Players |-> 0]
  /\ current_turn = 0
  /\ is_current_turn = [p \in Players |-> p = current_turn]
  /\ is_owned = [s \in Ownable |-> FALSE]
  /\ is_mortgaged = [s \in Ownable |-> FALSE]
  /\ house_count = [s \in PROPERTIES |-> 0]
  /\ current_profit_level = [s \in Ownable |-> <<"Base", 0>>]
  /\ should_show_ui = InitialShow
  /\ auction = [s \in Ownable |-> None]
  /\ auction_log = [s \in Ownable |-> << >>]
  /\ current_turn_location = 0
  /\ dice_rolled = FALSE
  /\ is_visible = FALSE
  /\ rolls = 0
  /\ auctions = 0
  /\ op = Op("init", 0, 0)

\* Player.move (move_by_spaces) with the sum of two dice
Move ==
  /\ UNCHANGED cards
  /\ rolls < MaxRolls
  /\ rolls' = rolls + 1
  /\ \E p \in Players, d1 \in 1 .. 6, d2 \in 1 .. 6 :
       /\ SetWorld(_update_board_position(World, p, d1 + d2))
       /\ op' = OpAmt("move", p, location[p], d1 + d2)
  /\ UNCHANGED << numPlayers, is_current_turn, current_profit_level,
                  should_show_ui, auction, auction_log, current_turn,
                  current_turn_location, dice_rolled, is_visible, auctions >>

\* what a card that moves the acting player leaves alone
CardFrame ==
  /\ UNCHANGED cards
  /\ rolls < MaxRolls
  /\ rolls' = rolls + 1
  /\ UNCHANGED << numPlayers, is_current_turn, current_profit_level,
                  should_show_ui, auction, auction_log, current_turn,
                  current_turn_location, dice_rolled, is_visible, auctions >>

\* a card's player.moveTo(target) for the acting player p
CardMoveTo(name, p, target) ==
  /\ SetWorld(move_to_space(World, p, target))
  /\ op' = OpAmt(name, p, location[p], target)

\* ChanceActions.advanceToGo and ComChestActions.advanceToGo
AdvanceToGo ==
  /\ CardFrame
  /\ \E p \in Players : CardMoveTo("advanceToGo", p, BOARD_SIZE)

\* ChanceActions.advanceToBoardwalk
AdvanceToBoardwalk ==
  /\ CardFrame
  /\ \E p \in Players : CardMoveTo("advanceToBoardwalk", p, 39)

\* ChanceActions.advanceToIllinoisAve
AdvanceToIllinoisAve ==
  /\ CardFrame
  /\ \E p \in Players : CardMoveTo("advanceToIllinoisAve", p, 24)

\* ChanceActions.advanceToStCharlesPlace
AdvanceToStCharlesPlace ==
  /\ CardFrame
  /\ \E p \in Players : CardMoveTo("advanceToStCharlesPlace", p, 11)

\* ChanceActions.advanceToNearestRailroad
AdvanceToNearestRailroad ==
  /\ CardFrame
  /\ \E p \in Players :
       LET i == TrackIndex(location[p])
       IN CardMoveTo("advanceToNearestRailroad", p,
                     IF i < 5 THEN 5
                     ELSE IF i < 15 THEN 15
                     ELSE IF i < 25 THEN 25
                     ELSE IF i < 35 THEN 35
                     ELSE 5)

\* ChanceActions.advanceToNearestUtility
AdvanceToNearestUtility ==
  /\ CardFrame
  /\ \E p \in Players :
       LET i == TrackIndex(location[p])
       IN CardMoveTo("advanceToNearestUtility", p,
                     IF i < 12 THEN 12
                     ELSE IF i < 28 THEN 28
                     ELSE 12)

\* ChanceActions.goToReadingRailroad
GoToReadingRailroad ==
  /\ CardFrame
  /\ \E p \in Players : CardMoveTo("goToReadingRailroad", p, 5)

NextMove ==
  \/ Move
  \/ AdvanceToGo
  \/ AdvanceToBoardwalk
  \/ AdvanceToIllinoisAve
  \/ AdvanceToStCharlesPlace
  \/ AdvanceToNearestRailroad
  \/ AdvanceToNearestUtility
  \/ GoToReadingRailroad

SpecMove == InitMove /\ [][NextMove]_vars

\* ------------------------------------------------ one auction, from its start
\* The state right after Property.handle_auction_button_click, for each number
\* of players and each property the player in turn may stand on; then the Bid
\* and Withdraw buttons only.
InitAuction ==
  /\ NoDecks
  /\ numPlayers \in MIN_PLAYERS .. MAX_PLAYERS
  /\ money = [p \in Players |-> STARTING_MONEY]
  /\ properties = [p \in Players |-> << >>]
  /\ buildings = [p \in Players |-> << >>]
  /\ is_bankrupt = [p \in Players |-> FALSE]
  /\ current_turn = 0
  /\ current_turn_location \in Ownable
  /\ location = [p \in Players |->
                   IF p = current_turn THEN current_turn_location ELSE 0]
  /\ is_in_jail = [p \in Players |-> FALSE]
  /\ jail_turn_count = [p \in Players |-> 0]
  /\ is_current_turn = [p \in Players |-> p = current_turn]
  /\ is_owned = [s \in Ownable |-> FALSE]
  /\ is_mortgaged = [s \in Ownable |-> FALSE]
  /\ house_count = [s \in PROPERTIES |-> 0]
  /\ current_profit_level = [s \in Ownable |-> <<"Base", 0>>]
  /\ should_show_ui = [InitialShow EXCEPT ![current_turn_location] = FALSE]
  /\ auction = [s \in Ownable |->
                  IF s = current_turn_location
                  THEN Some(NewAuction(numPlayers)) ELSE None]
  /\ auction_log = [s \in Ownable |-> << >>]
  /\ dice_rolled = TRUE
  /\ is_visible = FALSE
  /\ rolls = 1
  /\ auctions = 1
  /\ op = Op("auction", current_turn, current_turn_location)

NextAuction ==
  \/ ClickBid
  \/ ClickWithdraw

SpecAuction == InitAuction /\ [][NextAuction]_vars

(***************************************************************************)
(* An auction started by a solvent player while some of the other players  *)
(* are bankrupt (bankrupt, no money, nothing held).                        *)
(***************************************************************************)
InitInsolvent ==
  /\ NoDecks
  /\ numPlayers \in MIN_PLAYERS .. MAX_PLAYERS
  /\ current_turn \in Players
  /\ \E bankrupt \in SUBSET (Players \ {current_turn}) :
       /\ bankrupt # {}
       /\ is_bankrupt = [p \in Players |-> p \in bankrupt]
       /\ money = [p \in Players |->
                     IF p \in bankrupt THEN 0 ELSE STARTING_MONEY]
  /\ properties = [p \in Players |-> << >>]
  /\ buildings = [p \in Players |-> << >>]
  /\ current_turn_location \in Ownable
  /\ location = [p \in Players |->
                   IF p = current_turn THEN current_turn_location ELSE 0]
  /\ is_in_jail = [p \in Players |-> FALSE]
  /\ jail_turn_count = [p \in Players |-> 0]
  /\ is_current_turn = [p \in Players |-> p = current_turn]
  /\ is_owned = [s \in Ownable |-> FALSE]
  /\ is_mortgaged = [s \in Ownable |-> FALSE]
  /\ house_count = [s \in PROPERTIES |-> 0]
  /\ current_profit_level = [s \in Ownable |-> <<"Base", 0>>]
  /\ should_show_ui = [InitialShow EXCEPT ![current_turn_location] = FALSE]
  /\ auction = [s \in Ownable |->
                  IF s = current_turn_location
                  THEN Some(NewAuction(numPlayers)) ELSE None]
  /\ auction_log = [s \in Ownable |-> << >>]
  /\ dice_rolled = TRUE
  /\ is_visible = FALSE
  /\ rolls = 1
  /\ auctions = 1
  /\ op = Op("auction", current_turn, current_turn_location)

NextInsolvent ==
  \/ ClickBid
  \/ ClickWithdraw

SpecInsolvent == InitInsolvent /\ [][NextInsolvent]_vars

(***************************************************************************)
(* Turn order with bankrupt players: a game in progress in which players   *)
(* are charged (Player.deduct_money, as rent, tax, bail and card charges   *)
(* do) and credited (Player.receive_money), and End Turn is clicked.       *)
(***************************************************************************)
\* nothing, just short of bail, and the starting money
TurnMoney == {0, BAIL_AMOUNT - 1, STARTING_MONEY}

InitTurn ==
  /\ NoDecks
  /\ numPlayers \in MIN_PLAYERS .. MAX_PLAYERS
  /\ money \in [Players -> TurnMoney]
  /\ properties = [p \in Players |-> << >>]
  /\ buildings = [p \in Players |-> << >>]
  /\ is_bankrupt = [p \in Players |-> FALSE]
  /\ location = [p \in Players |-> 0]
  /\ is_in_jail = [p \in Players |-> FALSE]
  /\ jail_turn_count = [p \in Players |-> 0]
  /\ current_turn \in Players
  /\ is_current_turn = [p \in Players |-> p = current_turn]
  /\ is_owned = [s \in Ownable |-> FALSE]
  /\ is_mortgaged = [s \in Ownable |-> FALSE]
  /\ house_count = [s \in PROPERTIES |-> 0]
  /\ current_profit_level = [s \in Ownable |-> <<"Base", 0>>]
  /\ should_show_ui = InitialShow
  /\ auction = [s \in Ownable |-> None]
  /\ auction_log = [s \in Ownable |-> << >>]
  /\ current_turn_location = 0
  /\ dice_rolled \in BOOLEAN
  /\ is_visible = FALSE
  /\ rolls = 0
  /\ auctions = 0
  /\ op = Op("start_game", current_turn, 0)

\* Player.deduct_money of the bail amount for a player who cannot pay it
Charge ==
  /\ UNCHANGED cards
  /\ \E p \in Players :
       /\ money[p] < BAIL_AMOUNT
       /\ SetWorld(deduct_money(World, p, BAIL_AMOUNT))
       /\ op' = OpAmt("deduct_money", p, location[p], BAIL_AMOUNT)
  /\ UNCHANGED << numPlayers, is_current_turn, current_profit_level,
                  should_show_ui, auction, auction_log, current_turn,
                  current_turn_location, dice_rolled, is_visible, rolls,
                  auctions >>

\* Player.receive_money of the Go bonus for a player short of money
Credit ==
  /\ UNCHANGED cards
  /\ \E p \in Players :
       /\ money[p] < BAIL_AMOUNT
       /\ SetWorld(receive_money(World, p, PASS_GO_BONUS))
       /\ op' = OpAmt("receive_money", p, location[p], PASS_GO_BONUS)
  /\ UNCHANGED << numPlayers, is_current_turn, current_profit_level,
                  should_show_ui, auction, auction_log, current_turn,
                  current_turn_location, dice_rolled, is_visible, rolls,
                  auctions >>

NextTurn ==
  \/ Charge
  \/ Credit
  \/ ClickEndTurn

SpecTurn == InitTurn /\ [][NextTurn]_vars

(***************************************************************************)
(* Jail: the turn of a player who sits in jail, from the moment the turn   *)
(* has passed to that player (Game.advance_turn has hidden the window of   *)
(* the jail space).  The player's money, holdings and count of failed      *)
(* rolls are drawn from bounded sets.                                      *)
(***************************************************************************)
\* the space the jailed player may hold
JailHolding == AccountOrder[1]

InitJail ==
  /\ NoDecks
  /\ numPlayers \in MIN_PLAYERS .. MAX_PLAYERS
  /\ current_turn \in Players
  /\ \E m \in MoneyValues :
       money = [p \in Players |->
                  IF p = current_turn THEN m ELSE STARTING_MONEY]
  /\ \E held \in BOOLEAN, mortgaged \in BOOLEAN :
       /\ mortgaged => held
       /\ properties = [p \in Players |->
                          IF held /\ p = current_turn
                          THEN << JailHolding >> ELSE << >>]
       /\ is_owned = [s \in Ownable |-> held /\ s = JailHolding]
       /\ is_mortgaged = [s \in Ownable |-> mortgaged /\ s = JailHolding]
  /\ \E failed \in 0 .. MAX_JAIL_TURNS :
       jail_turn_count = [p \in Players |->
                            IF p = current_turn THEN failed ELSE 0]
  /\ buildings = [p \in Players |-> << >>]
  /\ is_bankrupt = [p \in Players |-> FALSE]
  /\ location = [p \in Players |->
                   IF p = current_turn THEN JAIL_POSITION ELSE 0]
  /\ is_in_jail = [p \in Players |-> p = current_turn]
  /\ is_current_turn = [p \in Players |-> p = current_turn]
  /\ house_count = [s \in PROPERTIES |-> 0]
  /\ current_profit_level = [s \in Ownable |-> <<"Base", 0>>]
  /\ should_show_ui = [InitialShow EXCEPT ![JAIL_POSITION] = FALSE]
  /\ auction = [s \in Ownable |-> None]
  /\ auction_log = [s \in Ownable |-> << >>]
  /\ current_turn_location = JAIL_POSITION
  /\ dice_rolled = FALSE
  /\ is_visible = FALSE
  /\ rolls = 0
  /\ auctions = 0
  /\ op = Op("advance_turn", current_turn, JAIL_POSITION)

NextJail ==
  \/ Tick
  \/ KeySpace

SpecJail == InitJail /\ [][NextJail]_vars

(***************************************************************************)
(* Jail entry: Player.send_to_jail called for a player anywhere on the     *)
(* track, or already in jail with any counter, with any of the TurnMoney   *)
(* amounts.                                                                *)
(***************************************************************************)
InitEntry ==
  /\ NoDecks
  /\ numPlayers = MIN_PLAYERS
  /\ \E m \in TurnMoney :
       money = [p \in Players |-> IF p = 0 THEN m ELSE STARTING_MONEY]
  /\ properties = [p \in Players |-> IF p = 0 THEN << JailHolding >> ELSE << >>]
  /\ buildings = [p \in Players |-> << >>]
  /\ is_bankrupt = [p \in Players |-> FALSE]
  /\ \E i \in 0 .. BOARD_SIZE - 1, jailed \in BOOLEAN,
        n \in 0 .. MAX_JAIL_TURNS :
       /\ jailed \/ n = 0
       /\ jailed => i = 0
       /\ location = [p \in Players |->
                        IF p # 0 THEN 0
                        ELSE IF jailed THEN JAIL_POSITION ELSE i]
       /\ is_in_jail = [p \in Players |-> p = 0 /\ jailed]
       /\ jail_turn_count = [p \in Players |-> IF p = 0 THEN n ELSE 0]
  /\ current_turn = 0
  /\ is_current_turn = [p \in Players |-> p = current_turn]
  /\ is_owned = [s \in Ownable |-> s = JailHolding]
  /\ is_mortgaged = [s \in Ownable |-> FALSE]
  /\ house_count = [s \in PROPERTIES |-> 0]
  /\ current_profit_level = [s \in Ownable |-> <<"Base", 0>>]
  /\ should_show_ui = InitialShow
  /\ auction = [s \in Ownable |-> None]
  /\ auction_log = [s \in Ownable |-> << >>]
  /\ current_turn_location = 0
  /\ dice_rolled = FALSE
  /\ is_visible = FALSE
  /\ rolls = 0
  /\ auctions = 0
  /\ op = Op("init", 0, 0)

\* Player.send_to_jail (Player.goToJail); op records where the player stood
\* and the counter it had
SendToJail ==
  /\ UNCHANGED cards
  /\ \E p \in Players :
       /\ SetWorld(send_to_jail(World, p))
       /\ op' = OpAmt("send_to_jail", p, location[p], jail_turn_count[p])
  /\ UNCHANGED << numPlayers, is_current_turn, current_profit_level,
                  should_show_ui, auction, auction_log, current_turn,
                  current_turn_location, dice_rolled, is_visible, rolls,
                  auctions >>

NextEntry == SendToJail

SpecEntry == InitEntry /\ [][NextEntry]_vars

(***************************************************************************)
(* Custody: everything that sets or clears the jail flag and the jail      *)
(* counter of the player to move, from the states of InitEntry: the OK     *)
(* button of Go To Jail, the Go To Jail card, the bail button of the Jail  *)
(* space, and the roll with the loop pass that follows it.                 *)
(***************************************************************************)
\* Game._handle_special_space_click on Go To Jail:
\* GoToJailSpace.handle_ok_button_click(current_turn)
GoToJailOk ==
  /\ UNCHANGED cards
  /\ Kind(current_turn_location) = "gotojail"
  /\ SetWorld(send_to_jail(World, current_turn))
  /\ should_show_ui' = [should_show_ui EXCEPT ![current_turn_location] = FALSE]
  /\ op' = OpAmt("send_to_jail", current_turn, location[current_turn],
                 jail_turn_count[current_turn])
  /\ UNCHANGED << numPlayers, is_current_turn, current_profit_level,
                  auction, auction_log, current_turn,
                  current_turn_location, dice_rolled, is_visible, rolls,
                  auctions >>

\* ChanceActions.goToJail / ComChestActions.goToJail for the player whose
\* turn it is, standing on a card space
GoToJailCard ==
  /\ UNCHANGED cards
  /\ Kind(current_turn_location) = "card"
  /\ SetWorld(send_to_jail(World, current_turn))
  /\ op' = OpAmt("goToJail", current_turn, location[current_turn],
                 jail_turn_count[current_turn])
  /\ UNCHANGED << numPlayers, is_current_turn, current_profit_level,
                  should_show_ui, auction, auction_log, current_turn,
                  current_turn_location, dice_rolled, is_visible, rolls,
                  auctions >>

\* Game._handle_special_space_click on the Jail space:
\* JailSpace.handle_pay_button_click(current_turn)
PayJailBail ==
  /\ UNCHANGED cards
  /\ Kind(current_turn_location) = "jail"
  /\ SetWorld(pay_jail_bail(World, current_turn))
  /\ should_show_ui' = [should_show_ui EXCEPT ![current_turn_location] = FALSE]
  /\ op' = OpAmt("pay_jail_bail", current_turn, location[current_turn],
                 BAIL_AMOUNT)
  /\ UNCHANGED << numPlayers, is_current_turn, current_profit_level,
                  auction, auction_log, current_turn,
                  current_turn_location, dice_rolled, is_visible, rolls,
                  auctions >>

NextCustody ==
  \/ GoToJailOk
  \/ GoToJailCard
  \/ PayJailBail
  \/ Tick
  \/ KeySpace

SpecCustody == InitEntry /\ [][NextCustody]_vars

(***************************************************************************)
(* The decks of two card spaces.  Each is built and shuffled, deals one    *)
(* card in the deck's constructor and one in CardSpace.__init__, and then  *)
(* deals a card whenever Deck.deal_card is called.                         *)
(***************************************************************************)
InitDeck ==
  /\ \E order \in [DeckSpaces -> Shuffles] :
       LET first(s)  == _draw_card(order[s], order[s])
           second(s) == _draw_card(first(s).deck, order[s])
       IN /\ deck = [s \in DeckSpaces |-> second(s).deck]
          /\ current_card = [s \in DeckSpaces |-> second(s).card]
          /\ dealt = [s \in DeckSpaces |-> << first(s).card, second(s).card >>]
  /\ numPlayers = MIN_PLAYERS
  /\ money = [p \in Players |-> STARTING_MONEY]
  /\ properties = [p \in Players |-> << >>]
  /\ buildings = [p \in Players |-> << >>]
  /\ is_bankrupt = [p \in Players |-> FALSE]
  /\ location = [p \in Players |-> 0]
  /\ is_in_jail = [p \in Players |-> FALSE]
  /\ jail_turn_count = [p \in Players |-> 0]
  /\ current_turn = 0
  /\ is_current_turn = [p \in Players |-> p = current_turn]
  /\ is_owned = [s \in Ownable |-> FALSE]
  /\ is_mortgaged = [s \in Ownable |-> FALSE]
  /\ house_count = [s \in PROPERTIES |-> 0]
  /\ current_profit_level = [s \in Ownable |-> <<"Base", 0>>]
  /\ should_show_ui = InitialShow
  /\ auction = [s \in Ownable |-> None]
  /\ auction_log = [s \in Ownable |-> << >>]
  /\ current_turn_location = 0
  /\ dice_rolled = FALSE
  /\ is_visible = FALSE
  /\ rolls = 0
  /\ auctions = 0
  /\ op = Op("init", 0, 0)

\* Deck.deal_card on the deck of a card space; op records the card dealt
DealCard ==
  /\ \E s \in DeckSpaces, fresh \in Shuffles :
       LET r == _draw_card(deck[s], fresh)
       IN /\ deck' = [deck EXCEPT ![s] = r.deck]
          /\ current_card' = [current_card EXCEPT ![s] = r.card]
          /\ dealt' = [dealt EXCEPT ![s] =
                         IF Len(deck[s]) = 0 THEN << r.card >>
                         ELSE Append(@, r.card)]
          /\ op' = OpAmt("deal_card", current_turn, s, r.card)
  /\ UNCHANGED << numPlayers, money, properties, buildings, is_bankrupt,
                  location, is_current_turn, is_in_jail, jail_turn_count,
                  is_owned, is_mortgaged, house_count, current_profit_level,
                  should_show_ui, auction, auction_log, current_turn,
                  current_turn_location, dice_rolled, is_visible, rolls,
                  auctions >>

NextDeck == DealCard

SpecDeck == InitDeck /\ [][NextDeck]_vars

(***************************************************************************)
(* The two cards that move money between the players, executed once for    *)
(* the player whose turn it is, with 2..4 players and any TurnMoney amounts.*)
(***************************************************************************)
InitTransfer ==
  /\ NoDecks
  /\ numPlayers \in MIN_PLAYERS .. MAX_PLAYERS
  /\ money \in [Players -> TurnMoney]
  /\ properties = [p \in Players |-> << >>]
  /\ buildings = [p \in Players |-> << >>]
  /\ is_bankrupt = [p \in Players |-> FALSE]
  /\ location = [p \in Players |-> 0]
  /\ is_in_jail = [p \in Players |-> FALSE]
  /\ jail_turn_count = [p \in Players |-> 0]
  /\ current_turn \in Players
  /\ is_current_turn = [p \in Players |-> p = current_turn]
  /\ is_owned = [s \in Ownable |-> FALSE]
  /\ is_mortgaged = [s \in Ownable |-> FALSE]
  /\ house_count = [s \in PROPERTIES |-> 0]
  /\ current_profit_level = [s \in Ownable |-> <<"Base", 0>>]
  /\ should_show_ui = InitialShow
  /\ auction = [s \in Ownable |-> None]
  /\ auction_log = [s \in Ownable |-> << >>]
  /\ current_turn_location = 0
  /\ dice_rolled = FALSE
  /\ is_visible = FALSE
  /\ rolls = 0
  /\ auctions = 0
  /\ op = Op("init", 0, 0)

\* `for person in players: ... person.money += amount` over the seats given
RECURSIVE CreditEach(_, _, _)
CreditEach(w, seats, amount) ==
  IF seats = << >> THEN w
  ELSE CreditEach([w EXCEPT !.money[Head(seats)] = @ + amount],
                  Tail(seats), amount)

\* `for person in players: ... person.charge(amount)` over the seats given
RECURSIVE ChargeEach(_, _, _)
ChargeEach(w, seats, amount) ==
  IF seats = << >> THEN w
  ELSE ChargeEach(deduct_money(w, Head(seats), amount), Tail(seats), amount)

\* the players other than the one whose turn it is, in list order
Others(turn) ==
  LET NotTurn(q) == ~turn[q + 1]
  IN SelectSeq([i \in 1 .. Len(turn) |-> i - 1], NotTurn)

TurnFlags == [i \in 1 .. numPlayers |-> is_current_turn[i - 1]]

\* ChanceActions.chairmanOfTheBoard
chairmanOfTheBoard(w, n, turn, p) ==
  LET chairman_price == (n - 1) * 50
  IN CreditEach(deduct_money(w, p, chairman_price), Others(turn),
                chairman_price)

\* ComChestActions.itsYourBirthday
itsYourBirthday(w, n, turn, p) ==
  [ChargeEach(w, Others(turn), 10) EXCEPT !.money[p] = @ + 10 * (n - 1)]

\* what a card that moves money leaves alone; ChanceActions.getCurrPlayer
\* makes the player whose turn it is the acting player
TransferFrame ==
  /\ op.name = "init"
  /\ UNCHANGED cards
  /\ UNCHANGED << numPlayers, is_current_turn, current_profit_level,
                  should_show_ui, auction, auction_log, current_turn,
                  current_turn_location, dice_rolled, is_visible, rolls,
                  auctions >>

ChairmanOfTheBoard ==
  /\ TransferFrame
  /\ SetWorld(chairmanOfTheBoard(World, numPlayers, TurnFlags, current_turn))
  /\ op' = OpAmt("chairmanOfTheBoard", current_turn, 0, 50)

ItsYourBirthday ==
  /\ TransferFrame
  /\ SetWorld(itsYourBirthday(World, numPlayers, TurnFlags, current_turn))
  /\ op' = OpAmt("itsYourBirthday", current_turn, 0, 10)

NextTransfer ==
  \/ ChairmanOfTheBoard
  \/ ItsYourBirthday

SpecTransfer == InitTransfer /\ [][NextTransfer]_vars

(***************************************************************************)
(* An auction of two players in which the first seat holds Mediterranean   *)
(* Avenue and has any of the TurnMoney amounts.                            *)
(***************************************************************************)
InitShort ==
  /\ NoDecks
  /\ numPlayers = MIN_PLAYERS
  /\ \E m \in TurnMoney :
       money = [p \in Players |-> IF p = 0 THEN m ELSE STARTING_MONEY]
  /\ properties = [p \in Players |-> IF p = 0 THEN << JailHolding >> ELSE << >>]
  /\ buildings = [p \in Players |-> << >>]
  /\ is_bankrupt = [p \in Players |-> FALSE]
  /\ current_turn = 1
  /\ current_turn_location \in Ownable \ {JailHolding}
  /\ location = [p \in Players |->
                   IF p = current_turn THEN current_turn_location ELSE 0]
  /\ is_in_jail = [p \in Players |-> FALSE]
  /\ jail_turn_count = [p \in Players |-> 0]
  /\ is_current_turn = [p \in Players |-> p = current_turn]
  /\ is_owned = [s \in Ownable |-> s = JailHolding]
  /\ is_mortgaged = [s \in Ownable |-> FALSE]
  /\ house_count = [s \in PROPERTIES |-> 0]
  /\ current_profit_level = [s \in Ownable |-> <<"Base", 0>>]
  /\ should_show_ui = [InitialShow EXCEPT ![current_turn_location] = FALSE]
  /\ auction = [s \in Ownable |->
                  IF s = current_turn_location
                  THEN Some(NewAuction(numPlayers)) ELSE None]
  /\ auction_log = [s \in Ownable |-> << >>]
  /\ dice_rolled = TRUE
  /\ is_visible = FALSE
  /\ rolls = 1
  /\ auctions = 1
  /\ op = Op("auction", current_turn, current_turn_location)

NextShort ==
  \/ ClickBid
  \/ ClickWithdraw

SpecShort == InitShort /\ [][NextShort]_vars

(***************************************************************************)
(* Landing: the player in turn stands on Go and rolls once; the other      *)
(* player owns any of the railroads, the utilities and Baltic Avenue,      *)
(* mortgaged or not.  The roll and the next pass of the game loop          *)
(* (Game._update_property_interactions) settle the landing.                *)
(***************************************************************************)
\* the spaces the other player may own
LandSpaces == RAILROADS \cup UTILS \cup { AccountOrder[2] }

\* the lander's money: nothing, or the starting money
LandMoney == { 0, STARTING_MONEY }

\* the members of S as a holdings list in board order
InBoardOrder(S) ==
  LET Held(s) == s \in S
  IN SelectSeq([i \in 1 .. BOARD_SIZE |-> i - 1], Held)

InitLand ==
  /\ NoDecks
  /\ numPlayers = MIN_PLAYERS
  /\ current_turn = 0
  /\ \E m \in LandMoney :
       money = [p \in Players |-> IF p = 0 THEN m ELSE STARTING_MONEY]
  /\ \E owned \in SUBSET LandSpaces, mortgaged \in BOOLEAN :
       /\ properties = [p \in Players |->
                          IF p = 1 THEN InBoardOrder(owned) ELSE << >>]
       /\ is_owned = [s \in Ownable |-> s \in owned]
       /\ is_mortgaged = [s \in Ownable |-> mortgaged /\ s \in owned]
  /\ buildings = [p \in Players |-> << >>]
  /\ is_bankrupt = [p \in Players |-> FALSE]
  /\ location = [p \in Players |-> 0]
  /\ is_in_jail = [p \in Players |-> FALSE]
  /\ jail_turn_count = [p \in Players |-> 0]
  /\ is_current_turn = [p \in Players |-> p = current_turn]
  /\ house_count = [s \in PROPERTIES |-> 0]
  /\ current_profit_level = [s \in Ownable |-> <<"Base", 0>>]
  /\ should_show_ui = InitialShow
  /\ auction = [s \in Ownable |-> None]
  /\ auction_log = [s \in Ownable |-> << >>]
  /\ current_turn_location = 0
  /\ dice_rolled = FALSE
  /\ is_visible = FALSE
  /\ rolls = 0
  /\ auctions = 0
  /\ op = Op("advance_turn", current_turn, 0)

NextLand ==
  \/ Tick
  \/ KeySpace

SpecLand == InitLand /\ [][NextLand]_vars

(***************************************************************************)
(* A second round of three players.  In the first round player 1 bought    *)
(* Reading Railroad and player 2 stopped on Baltic Avenue; player 1 then   *)
(* began its second turn on the railroad (advance_turn cleared the         *)
(* railroad's show flag) and has just rolled away from it.                 *)
(***************************************************************************)
VisitSpace == AccountOrder[3]
VisitFrom == AccountOrder[2]

InitVisit ==
  /\ NoDecks
  /\ numPlayers = MIN_PLAYERS + 1
  /\ current_turn = 1
  /\ money = [p \in Players |->
                IF p = 1 THEN STARTING_MONEY - price(VisitSpace)
                ELSE STARTING_MONEY]
  /\ properties = [p \in Players |->
                     IF p = 1 THEN << VisitSpace >> ELSE << >>]
  /\ is_owned = [s \in Ownable |-> s = VisitSpace]
  /\ is_mortgaged = [s \in Ownable |-> FALSE]
  /\ buildings = [p \in Players |-> << >>]
  /\ is_bankrupt = [p \in Players |-> FALSE]
  /\ \E d1 \in 1 .. 6, d2 \in 1 .. 6 :
       /\ location = [p \in Players |->
                        CASE p = 0 -> TrackIndex(JAIL_POSITION)
                          [] p = 1 -> VisitSpace + d1 + d2
                          [] p = 2 -> VisitFrom]
       /\ op = OpAmt("roll", current_turn, VisitSpace, 10 * d1 + d2)
  /\ is_in_jail = [p \in Players |-> FALSE]
  /\ jail_turn_count = [p \in Players |-> 0]
  /\ is_current_turn = [p \in Players |-> p = current_turn]
  /\ house_count = [s \in PROPERTIES |-> 0]
  /\ current_profit_level = [s \in Ownable |-> <<"Base", 0>>]
  /\ should_show_ui = [InitialShow EXCEPT ![VisitSpace] = FALSE]
  /\ auction = [s \in Ownable |-> None]
  /\ auction_log = [s \in Ownable |-> << >>]
  /\ current_turn_location = VisitSpace
  /\ dice_rolled = TRUE
  /\ is_visible = TRUE
  /\ rolls = 0
  /\ auctions = 0

NextVisit ==
  \/ Tick
  \/ KeySpace
  \/ ClickEndTurn

SpecVisit == InitVisit /\ [][NextVisit]_vars

(***************************************************************************)
(* The first turn of a game of two players, just after player 0 has rolled *)
(* from Go: the events of the same pass of Game.loop are still being       *)
(* handled, the state update of the pass has not run yet.                  *)
(***************************************************************************)
InitReroll ==
  /\ NoDecks
  /\ numPlayers = MIN_PLAYERS
  /\ current_turn = 0
  /\ money = [p \in Players |-> STARTING_MONEY]
  /\ properties = [p \in Players |-> << >>]
  /\ is_owned = [s \in Ownable |-> FALSE]
  /\ is_mortgaged = [s \in Ownable |-> FALSE]
  /\ buildings = [p \in Players |-> << >>]
  /\ is_bankrupt = [p \in Players |-> FALSE]
  /\ \E d1 \in 1 .. 6, d2 \in 1 .. 6 :
       /\ location = [p \in Players |-> IF p = 0 THEN d1 + d2 ELSE 0]
       /\ op = OpAmt("roll", current_turn, 0, 10 * d1 + d2)
  /\ is_in_jail = [p \in Players |-> FALSE]
  /\ jail_turn_count = [p \in Players |-> 0]
  /\ is_current_turn = [p \in Players |-> p = current_turn]
  /\ house_count = [s \in PROPERTIES |-> 0]
  /\ current_profit_level = [s \in Ownable |-> <<"Base", 0>>]
  /\ should_show_ui = InitialShow
  /\ auction = [s \in Ownable |-> None]
  /\ auction_log = [s \in Ownable |-> << >>]
  /\ current_turn_location = 0
  /\ dice_rolled = TRUE
  /\ is_visible = TRUE
  /\ rolls = 0
  /\ auctions = 0

NextReroll ==
  \/ KeySpace
  \/ Tick
  \/ ClickEndTurn

SpecReroll == InitReroll /\ [][NextReroll]_vars

(***************************************************************************)
(* An auction and the next landing: seat 0 stands on Reading Railroad and  *)
(* has started its auction (as in InitAuction); after the clicks on Bid    *)
(* and Withdraw the turn ends and the other player rolls from Go.          *)
(***************************************************************************)
\* the space under auction
ResaleSpace == AccountOrder[3]

InitResale ==
  /\ NoDecks
  /\ numPlayers = MIN_PLAYERS
  /\ money = [p \in Players |-> STARTING_MONEY]
  /\ properties = [p \in Players |-> << >>]
  /\ buildings = [p \in Players |-> << >>]
  /\ is_bankrupt = [p \in Players |-> FALSE]
  /\ current_turn = 0
  /\ current_turn_location = ResaleSpace
  /\ location = [p \in Players |->
                   IF p = current_turn THEN current_turn_location ELSE 0]
  /\ is_in_jail = [p \in Players |-> FALSE]
  /\ jail_turn_count = [p \in Players |-> 0]
  /\ is_current_turn = [p \in Players |-> p = current_turn]
  /\ is_owned = [s \in Ownable |-> FALSE]
  /\ is_mortgaged = [s \in Ownable |-> FALSE]
  /\ house_count = [s \in PROPERTIES |-> 0]
  /\ current_profit_level = [s \in Ownable |-> <<"Base", 0>>]
  /\ should_show_ui = [InitialShow EXCEPT ![current_turn_location] = FALSE]
  /\ auction = [s \in Ownable |->
                  IF s = current_turn_location
                  THEN Some(NewAuction(numPlayers)) ELSE None]
  /\ auction_log = [s \in Ownable |-> << >>]
  /\ dice_rolled = TRUE
  /\ is_visible = FALSE
  /\ rolls = 0
  /\ auctions = 0
  /\ op = Op("auction", current_turn, current_turn_location)

NextResale ==
  \/ ClickBid
  \/ ClickWithdraw
  \/ ClickEndTurn
  \/ Tick
  \/ KeySpace

SpecResale == InitResale /\ [][NextResale]_vars

(***************************************************************************)
(* Building: player 0 holds the brown colour group, nothing is mortgaged   *)
(* or built, and Player.build is called again and again, by either player  *)
(* for either property, as long as the money lasts.                        *)
(***************************************************************************)
\* the colour group built on
BuildSpaces == { s \in PROPERTIES : color(s) = color(AccountOrder[1]) }

InitBuild ==
  /\ NoDecks
  /\ numPlayers = MIN_PLAYERS
  /\ money = [p \in Players |-> STARTING_MONEY]
  /\ properties = [p \in Players |->
                     IF p = 0 THEN InBoardOrder(BuildSpaces) ELSE << >>]
  /\ buildings = [p \in Players |-> << >>]
  /\ is_bankrupt = [p \in Players |-> FALSE]
  /\ location = [p \in Players |-> 0]
  /\ is_in_jail = [p \in Players |-> FALSE]
  /\ jail_turn_count = [p \in Players |-> 0]
  /\ current_turn = 0
  /\ is_current_turn = [p \in Players |-> p = current_turn]
  /\ is_owned = [s \in Ownable |-> s \in BuildSpaces]
  /\ is_mortgaged = [s \in Ownable |-> FALSE]
  /\ house_count = [s \in PROPERTIES |-> 0]
  /\ current_profit_level = [s \in Ownable |-> <<"Base", 0>>]
  /\ should_show_ui = InitialShow
  /\ auction = [s \in Ownable |-> None]
  /\ auction_log = [s \in Ownable |-> << >>]
  /\ current_turn_location = 0
  /\ dice_rolled = FALSE
  /\ is_visible = FALSE
  /\ rolls = 0
  /\ auctions = 0
  /\ op = Op("init", 0, 0)

\* Player.construct_building (Player.build), as the build menu's plus button
\* calls it
Build ==
  /\ UNCHANGED cards
  /\ \E p \in Players, s \in BuildSpaces :
       /\ SetWorld(construct_building(World, p, s))
       /\ op' = OpAmt("construct_building", p, s, buildCost(s))
  /\ UNCHANGED << numPlayers, is_current_turn, current_profit_level,
                  should_show_ui, auction, auction_log, current_turn,
                  current_turn_location, dice_rolled, is_visible, rolls,
                  auctions >>

NextBuild == Build

SpecBuild == InitBuild /\ [][NextBuild]_vars

\* ---------------------------------------------------------------- claims
\* the number of entries for space s over all players' holdings lists
HoldCount(s) ==
  Cardinality({ e \in Players \X (1 .. 40) :
                  /\ e[2] <= Len(properties[e[1]])
                  /\ properties[e[1]][e[2]] = s })

\* C1: under any sequence of buy, start-auction, bid and withdraw intents, a
\* space is owned exactly when it appears in exactly one player's holdings
\* list, exactly once.
C1_OwnedIffHeldOnce ==
  \A s \in Ownable : is_owned[s] <=> HoldCount(s) = 1

\* C2: a player's money is never negative in a state reached after an
\* operation has completed, card fines included.
C2_MoneyNeverNegative == \A p \in Players : money[p] >= 0

\* C3: when deduct_money is called with money < amount and the liquidation
\* raises enough to cover the charge, the charge is then applied: the final
\* money is the money after the liquidation minus the amount (40, a charge of
\* 50 and one unmortgaged property of mortgage value 30 give 20).
C3_ChargeAppliedAfterLiquidation ==
  [][ \A p \in Players :
        LET liquidated == _handle_bankruptcy(World, p, op'.amount) IN
        ( /\ op'.name = "deduct_money"
          /\ op'.seat = p
          /\ money[p] < op'.amount
          /\ ~liquidated.is_bankrupt[p] )
        => /\ ~is_bankrupt'[p]
           /\ money'[p] = liquidated.money[p] - op'.amount ]_vars

\* C4: after _handle_bankruptcy(required) returns, either money >= required
\* or the player is bankrupt.
C4_LiquidationOutcome ==
  op.name = "_handle_bankruptcy"
    => (money[op.seat] >= op.amount \/ is_bankrupt[op.seat])

\* a liquidation that raised the required amount: the money is no longer one
\* of the initial values and the player is solvent
C4_Witness ==
  /\ op.name = "_handle_bankruptcy"
  /\ money[op.seat] \notin MoneyValues
  /\ money[op.seat] >= op.amount
  /\ ~is_bankrupt[op.seat]
  /\ \E s \in AccountSpaces : InSeq(s, properties[op.seat]) /\ is_mortgaged[s]

\* C5: for every position p in 0..39 and roll n in 2..12, move(n) sets the
\* position to (p + n) mod 40 and adds exactly 200 to the money if and only
\* if p + n >= 40; otherwise the money is unchanged.
C5_MoveAndGoBonus ==
  [][ op'.name = "move" =>
        LET p == location[op'.seat]
            n == op'.amount
        IN /\ p \in 0 .. 39 /\ n \in 2 .. 12
           /\ location'[op'.seat] = (p + n) % 40
           /\ money'[op'.seat] =
                money[op'.seat] + (IF p + n >= 40 THEN 200 ELSE 0)
           /\ \A q \in Players \ {op'.seat} :
                money'[q] = money[q] /\ location'[q] = location[q] ]_vars

\* a move that lands exactly on Go and one bonus has been paid
C5_Witness ==
  /\ op.name = "move"
  /\ op.space + op.amount = BOARD_SIZE
  /\ location[op.seat] = 0
  /\ money[op.seat] = STARTING_MONEY + PASS_GO_BONUS

\* C6: no player's money is reduced by a rent charge on a property whose
\* is_mortgaged flag is set, whatever the kind of the property.
C6_NoRentWhenMortgaged ==
  [][ (op'.name = "charge_rent" /\ is_mortgaged[op'.space])
        => (money' = money /\ is_bankrupt' = is_bankrupt
            /\ is_mortgaged' = is_mortgaged /\ buildings' = buildings) ]_vars

\* charge_rent has been called for a visitor on a mortgaged property that
\* somebody else owns and whose rent is not zero
C6_Witness ==
  /\ op.name = "charge_rent"
  /\ is_owned[op.space]
  /\ is_mortgaged[op.space]
  /\ ~InSeq(op.space, properties[op.seat])
  /\ op.amount > 0

\* the other properties of the colour group of s
Siblings(s) == { x \in PROPERTIES : color(x) = color(s) /\ x # s }

\* C7: construct_building is rejected (no building added, no money deducted)
\* whenever the target's building count exceeds the minimum building count
\* among its colour-set siblings.
C7_UnevenBuildRejected ==
  [][ ( /\ op'.name = "construct_building"
        /\ \E x \in Siblings(op'.space) :
             house_count[op'.space] > house_count[x] )
        => (house_count' = house_count /\ money' = money) ]_vars

\* the seats that have withdrawn within the first i entries of a log
WithdrawnUpTo(log, i) ==
  { log[j].seat : j \in { k \in 1 .. i : log[k].name = "withdraw" } }

\* the next seat after `seat`, in cyclic order, that is not in `withdrawn`
NextSeat(seat, withdrawn, n) ==
  LET k == CHOOSE d \in 1 .. n :
             /\ (seat + d) % n \notin withdrawn
             /\ \A e \in 1 .. d - 1 : (seat + e) % n \in withdrawn
  IN (seat + k) % n

ScenarioOps == << "bid", "bid", "withdraw", "bid", "withdraw", "withdraw" >>
ScenarioSeats == << 0, 1, 2, 3, 0, 1 >>

\* C8: in an auction with N >= 2 players, bid and withdraw pass the turn to the
\* next seat in cyclic order that has not withdrawn, and the auction settles
\* only when a single non-withdrawn bidder remains; with 4 players the
\* sequence bid, bid, withdraw, bid, withdraw, withdraw is played by seats
\* 0,1,2,3,0,1 and ends with seat 3 buying the property at its bid of 30.
C8_AuctionTurnOrder ==
  \A s \in Ownable :
    auction[s] # None =>
      LET a == Value(auction[s])
          log == auction_log[s]
          n == Len(log)
      IN /\ n >= 1 => log[1].seat = 0
         /\ \A i \in 1 .. n - 1 :
              Cardinality(Players \ WithdrawnUpTo(log, i)) >= 2
                => log[i + 1].seat =
                     NextSeat(log[i].seat, WithdrawnUpTo(log, i), numPlayers)
         /\ Cardinality(Players \ WithdrawnUpTo(log, n)) >= 2 => a.is_running
         /\ ( /\ numPlayers = 4
              /\ n = Len(ScenarioOps)
              /\ \A i \in 1 .. n : log[i].name = ScenarioOps[i] )
            => /\ \A i \in 1 .. n : log[i].seat = ScenarioSeats[i]
               /\ ~a.is_running
               /\ a.players[4] = Some(30)
               /\ InSeq(s, properties[3])
               /\ money[3] = STARTING_MONEY - 30

\* the bids of a log, in order
BidsOf(log) ==
  LET IsBid(e) == e.name = "bid" IN SelectSeq(log, IsBid)

\* C9: in one auction the first ask is 10 and, across successive place_bid
\* calls, each recorded bid is exactly 10 more than the bid recorded before.
C9_BidsRiseByTen ==
  \A s \in Ownable :
    auction[s] # None =>
      LET bids == BidsOf(auction_log[s]) IN
      /\ auction_log[s] = << >> => Value(auction[s]).next_bid = 10
      /\ Len(bids) >= 1 => bids[1].bid = Some(10)
      /\ \A i \in 1 .. Len(bids) - 1 :
           Value(bids[i + 1].bid) = Value(bids[i].bid) + 10

\* three bids have been recorded in one auction
C9_Witness ==
  \E s \in Ownable :
    /\ auction[s] # None
    /\ Len(BidsOf(auction_log[s])) >= 3
    /\ Value(auction[s]).current_price = 30

\* C10: withdraw is idempotent: from any auction state, two withdrawals in
\* succession leave the bids, the ask, the turn pointer, the running flag,
\* the ownership and every player's money and holdings as one withdrawal does.
C10_WithdrawIdempotent ==
  \A s \in Ownable :
    auction[s] # None =>
      LET once == withdraw_from_auction(Value(auction[s]), World, s)
          twice == withdraw_from_auction(once.a, once.w, s)
      IN twice = once

\* two withdrawals have been made in succession, after a bid
C10_Witness ==
  \E s \in Ownable :
    LET log == auction_log[s] IN
    /\ auction[s] # None
    /\ Len(log) >= 3
    /\ log[Len(log) - 2].name = "bid"
    /\ log[Len(log) - 1].name = "withdraw"
    /\ log[Len(log)].name = "withdraw"
    /\ op.name = "withdraw"

C12_SettledAuctionRejectsIntents ==
  [][ ( /\ op'.name \in {"bid", "withdraw"}
        /\ auction[op'.space] # None
        /\ ~Value(auction[op'.space]).is_running )
        => /\ auction' = auction
           /\ money' = money
           /\ properties' = properties
           /\ is_owned' = is_owned ]_vars

\* the players who are not bankrupt
Solvent == {p \in Players : ~is_bankrupt[p]}

\* C13: in every reachable state of a started game, mid-turn included,
\* exactly one non-bankrupt player has the turn flag set, and that player is
\* the controller's current player.
C13_OneSolventTurnHolder ==
  /\ {p \in Solvent : is_current_turn[p]} = {current_turn}

\* the first non-bankrupt player strictly after seat p in cyclic order (p
\* itself when every other player is bankrupt)
RECURSIVE FirstSolventAfter(_, _)
FirstSolventAfter(p, k) ==
  LET q == (p + k) % numPlayers
  IN IF ~is_bankrupt[q] \/ k >= numPlayers THEN q
     ELSE FirstSolventAfter(p, k + 1)

\* C14: when at least one player is not bankrupt, End Turn leaves as current
\* player the first non-bankrupt player strictly after the previous one in
\* cyclic order, with that player's turn flag set, every other turn flag
\* clear and the dice-rolled flag false.
C14_NextSolventPlayer ==
  [][ (op'.name \in {"end_turn", "RecursionError"} /\ Solvent # {})
        => /\ current_turn' = FirstSolventAfter(current_turn, 1)
           /\ is_current_turn' = [p \in Players |-> p = current_turn']
           /\ ~dice_rolled' ]_vars

\* End Turn has passed over two bankrupt players and stopped at a solvent one
C14_Witness ==
  /\ op.name = "end_turn"
  /\ op.amount = 3
  /\ ~is_bankrupt[current_turn]
  /\ is_current_turn = [p \in Players |-> p = current_turn]

\* C15: advance_turn terminates after examining at most N players in every
\* reachable state, the states in which every player is bankrupt included.
C15_AdvanceTurnTerminates ==
  /\ op.name # "RecursionError"
  /\ op.name = "end_turn" => op.amount <= numPlayers

\* C16: bankruptcy is terminal: a player whose bankrupt flag is set keeps it
\* in every later state, and the player's money is 0 in the state in which
\* the flag becomes set.
C16_BankruptcyTerminal ==
  [][ \A p \in Players :
        /\ is_bankrupt[p] => is_bankrupt'[p]
        /\ (~is_bankrupt[p] /\ is_bankrupt'[p]) => money'[p] = 0 ]_vars

\* a player who had money went bankrupt by the last charge, and a bankrupt
\* player has been credited since
C16_Witness ==
  \E p, q \in Players :
    /\ op.name = "deduct_money" /\ op.seat = p
    /\ is_bankrupt[p] /\ money[p] = 0
    /\ is_bankrupt[q] /\ money[q] = PASS_GO_BONUS

\* C17: a purchase is atomic.  It succeeds exactly when the space is unowned
\* and the buyer's money is at least the price; then the space is owned, it
\* is appended once to the buyer's holdings and the money falls by exactly
\* the price.  Otherwise nothing changes.
C17_PurchaseAtomic ==
  [][ op'.name = "purchase_property" =>
        LET p == op'.seat
            s == op'.space
        IN IF ~is_owned[s] /\ money[p] >= price(s)
           THEN /\ is_owned' = [is_owned EXCEPT ![s] = TRUE]
                /\ properties' = [properties EXCEPT ![p] = Append(@, s)]
                /\ Count(s, properties'[p]) = 1
                /\ money' = [money EXCEPT ![p] = @ - price(s)]
                /\ UNCHANGED << buildings, is_bankrupt, is_mortgaged,
                                house_count, location >>
           ELSE UNCHANGED << money, properties, is_owned, buildings,
                             is_bankrupt, is_mortgaged, house_count,
                             location >> ]_vars

\* the player with the starting money has bought a space
C17_Witness ==
  /\ op.name = "purchase_property"
  /\ is_owned[op.space]
  /\ InSeq(op.space, properties[op.seat])
  /\ money[op.seat] = STARTING_MONEY - price(op.space)

\* the two dice of the last roll
Die1 == op.amount \div 10
Die2 == op.amount % 10

\* C18: a player in jail who rolls doubles is freed in that step: the jail
\* flag is cleared, the jail counter is 0, no bail is charged, and the player
\* moves forward from track index 10 by the sum of the dice.
C18_DoublesFreeFromJail ==
  [][ (op'.name = "roll" /\ is_in_jail[op'.seat] /\ Die1' = Die2')
        => LET p == op'.seat
           IN /\ ~is_in_jail'[p]
              /\ jail_turn_count'[p] = 0
              /\ money'[p] = money[p]
              /\ TrackIndex(location[p]) = 10
              /\ location'[p] = 10 + Die1' + Die2' ]_vars

\* a player without money has left jail on a double six
C18_Witness ==
  /\ op.name = "roll"
  /\ op.space = JAIL_POSITION
  /\ op.amount = 66
  /\ ~is_in_jail[op.seat]
  /\ location[op.seat] = 22
  /\ money[op.seat] = 0

\* mortgage value of the spaces mortgaged by the step
MortgagedByStep ==
  LET news == { s \in Ownable : is_mortgaged'[s] /\ ~is_mortgaged[s] }
      RECURSIVE Sum(_)
      Sum(S) == IF S = {} THEN 0
                ELSE LET s == CHOOSE x \in S : TRUE
                     IN mortgagePrice(s) + Sum(S \ {s})
  IN Sum(news)

\* C19: a player in jail who fails to roll doubles stays in jail with the
\* counter raised to 1 and then to 2 without moving or paying; on the third
\* failed roll in a row the bail of 50 is charged, the jail flag and the
\* counter are cleared and the player moves by that roll.  No player is in
\* jail after a third own roll.
C19_ThirdFailedRollPaysBail ==
  [][ (op'.name = "roll" /\ is_in_jail[op'.seat] /\ Die1' # Die2')
        => LET p == op'.seat
           IN IF jail_turn_count[p] < MAX_JAIL_TURNS
              THEN /\ is_in_jail'[p]
                   /\ jail_turn_count'[p] = jail_turn_count[p] + 1
                   /\ location'[p] = location[p]
                   /\ money'[p] = money[p]
              ELSE /\ ~is_in_jail'[p]
                   /\ jail_turn_count'[p] = 0
                   /\ location'[p] = 10 + Die1' + Die2'
                   /\ \/ is_bankrupt'[p] /\ money'[p] = 0
                      \/ /\ ~is_bankrupt'[p]
                         /\ money'[p] =
                              money[p] + MortgagedByStep - BAIL_AMOUNT ]_vars

\* forward distance from index i to index t, a full lap when t = i
Ahead(i, t) == IF t > i THEN t - i ELSE t + BOARD_SIZE - i

\* the index in S nearest ahead of index i
NearestAhead(S, i) ==
  CHOOSE t \in S : \A u \in S : Ahead(i, t) <= Ahead(i, u)

\* the track index a move-to card sends a player standing on index i to
CardTarget(name, i) ==
  CASE name = "advanceToGo" -> 0
    [] name = "advanceToBoardwalk" -> 39
    [] name = "advanceToIllinoisAve" -> 24
    [] name = "advanceToStCharlesPlace" -> 11
    [] name = "goToReadingRailroad" -> 5
    [] name = "advanceToNearestRailroad" -> NearestAhead(RAILROADS, i)
    [] name = "advanceToNearestUtility" -> NearestAhead(UTILS, i)

CardNames ==
  { "advanceToGo", "advanceToBoardwalk", "advanceToIllinoisAve",
    "advanceToStCharlesPlace", "goToReadingRailroad",
    "advanceToNearestRailroad", "advanceToNearestUtility" }

\* C20: every move-to-position card leaves the acting player on the card's
\* target index and credits 200 exactly once when the forward path from the
\* player's index to the target crosses or lands on index 0, and nothing
\* otherwise; Advance to Go ends on index 0 with 200 credited once from
\* every index 0..39.
C20_MoveToCards ==
  [][ op'.name \in CardNames =>
        LET p == op'.seat
            i == TrackIndex(location[p])
            t == CardTarget(op'.name, i)
        IN /\ location' = [location EXCEPT ![p] = t]
           /\ money' = [money EXCEPT ![p] =
                          @ + IF t = 0 \/ t < i THEN PASS_GO_BONUS ELSE 0] ]_vars

\* Advance to Go was played from index 35
C20_Witness ==
  /\ op.name = "advanceToGo"
  /\ op.space = 35
  /\ location[op.seat] = 0
  /\ money[op.seat] = STARTING_MONEY + PASS_GO_BONUS

\* the player who holds space s: one seat, or none
HoldersOf(s) == { q \in Players : InSeq(s, properties[q]) }

\* the rent tier the rules give colour property s: by its buildings, else by
\* its owner holding the whole colour group
RuleTier(s) ==
  IF house_count[s] \in 1 .. 4 THEN <<"House", house_count[s]>>
  ELSE IF house_count[s] = 5 THEN <<"Hotel", 5>>
  ELSE IF \E q \in HoldersOf(s) :
            \A x \in Siblings(s) : InSeq(x, properties[q])
  THEN <<"Color Set", 0>>
  ELSE <<"Base", 0>>

\* position of a tier in the rent schedule
TierIndex(tier) ==
  CASE tier[1] = "Base" -> 1
    [] tier[1] = "Color Set" -> 2
    [] tier[1] = "House" -> tier[2] + 2
    [] tier[1] = "Hotel" -> 7

\* C21: a colour property's rent tier is Color Set exactly when its owner
\* holds every property of its colour group and it has no building; with 1..5
\* buildings the tier is House 1..4 or Hotel whoever owns the set; otherwise
\* it is Base; and the rent computed for a charge is the schedule entry of
\* that tier.
C21_ColorSetTier ==
  [][ (op'.name = "charge_rent" /\ Kind(op'.space) = "color")
        => /\ current_profit_level'[op'.space] = RuleTier(op'.space)
           /\ op'.amount = RENTPRICES(op'.space)[TierIndex(RuleTier(op'.space))]
    ]_vars

\* the step is the pass of the game loop that follows a roll of the player in
\* turn, who now stands on a space of the given kind that another player
\* owns and has not mortgaged
LandsOn(kind) ==
  /\ op.name = "roll"
  /\ op'.name = "tick"
  /\ Kind(location[current_turn]) = kind
  /\ is_owned[location[current_turn]]
  /\ ~is_mortgaged[location[current_turn]]
  /\ ~InSeq(location[current_turn], properties[current_turn])

\* how many spaces of the kind of s the owner of s holds
OwnerHolds(s) ==
  Cardinality({ x \in Ownable :
                  /\ Kind(x) = Kind(s)
                  /\ \E q \in HoldersOf(s) : InSeq(x, properties[q]) })

\* C22: a player who lands by rolling total d on an unmortgaged utility owned
\* by another player is charged d x 4 when the owner holds one utility and
\* d x 10 when the owner holds both (stated for a lander who can pay).
C22_UtilityRent ==
  [][ LET p == current_turn
          d == Die1 + Die2
          rent == d * (IF OwnerHolds(location[p]) = 2 THEN 10 ELSE 4)
      IN (LandsOn("utility") /\ money[p] >= rent)
           => money'[p] = money[p] - rent ]_vars

\* rent of a railroad whose owner holds k railroads
RailroadRule(k) ==
  CASE k = 1 -> 25 [] k = 2 -> 50 [] k = 3 -> 100 [] k = 4 -> 200

\* C23: the rent of an owned railroad is 25, 50, 100 or 200 as its owner
\* holds 1, 2, 3 or 4 railroads, in every state in which rent is charged:
\* the level set for the landing gives that rent, and money taken from the
\* lander is exactly that rent.
C23_RailroadRent ==
  [][ LandsOn("railroad") =>
        LET p == current_turn
            s == location[p]
            rent == RailroadRule(OwnerHolds(s))
        IN /\ calculate_rent(s, current_profit_level'[s]) = rent
           /\ money'[p] # money[p] => money'[p] = money[p] - rent ]_vars

\* the lander has paid 200 on Reading Railroad, whose owner holds all four
C23_Witness ==
  /\ op.name = "tick"
  /\ location[0] = 5
  /\ Cardinality({ x \in RAILROADS : InSeq(x, properties[1]) }) = 4
  /\ ~is_mortgaged[5]
  /\ money[0] = STARTING_MONEY - 200

\* half the building cost of the buildings sold by the step
SoldByStep ==
  LET RECURSIVE Sum(_)
      Sum(S) == IF S = {} THEN 0
                ELSE LET s == CHOOSE x \in S : TRUE
                     IN (house_count[s] - house_count'[s]) * (buildCost(s) \div 2)
                        + Sum(S \ {s})
  IN Sum({ s \in PROPERTIES : house_count'[s] < house_count[s] })

\* C24: a player who lands on an unmortgaged property owned by another player
\* with less money than the computed rent is charged through liquidation:
\* the step ends with the rent paid out of the money raised, or with the
\* player bankrupt; the rent is never skipped and never paid in part.
C24_UnaffordableRentLiquidates ==
  [][ \A kind \in {"color", "railroad", "utility"} :
        LET p == current_turn
            s == location[p]
            rent == calculate_rent(s, update_rent_level(World, numPlayers, s))
        IN (LandsOn(kind) /\ money[p] < rent)
             => \/ is_bankrupt'[p]
                \/ money'[p] = money[p] + SoldByStep + MortgagedByStep - rent
    ]_vars

\* C25: when a player's money is less than the amount of a tax space,
\* collecting the tax goes through liquidation: the player is never left
\* non-bankrupt with only part of the tax paid while still holding an asset
\* that could be liquidated (a building or an unmortgaged property).
C25_UnaffordableTaxLiquidates ==
  [][ (op'.name = "collect_tax" /\ money[op'.seat] < TAXPRICES(op'.space))
        => LET p == op'.seat
               paid == money[p] + SoldByStep + MortgagedByStep - money'[p]
           IN ~ ( /\ ~is_bankrupt'[p]
                  /\ paid < TAXPRICES(op'.space)
                  /\ \/ \E i \in 1 .. Len(properties'[p]) :
                          ~is_mortgaged'[properties'[p][i]]
                     \/ \E i \in 1 .. Len(buildings'[p]) :
                          buildings'[p][i].n > 0 ) ]_vars

\* C26: no building is ever added to a property that is mortgaged or whose
\* builder does not hold every property of its colour group: a successful
\* construction implies the target was unmortgaged and part of a colour set
\* fully held by the builder.
C26_BuildOnlyOnOwnedUnmortgagedSet ==
  [][ ( /\ op'.name = "construct_building"
        /\ house_count'[op'.space] > house_count[op'.space] )
        => /\ ~is_mortgaged[op'.space]
           /\ \A x \in Siblings(op'.space) \cup {op'.space} :
                InSeq(x, properties[op'.seat]) ]_vars

\* C27: each successful construction adds exactly one building to the target
\* and takes exactly its building cost from the builder; every property's
\* building count stays within 0..5, so no construction succeeds at 5.
C27_OneBuildingAtATime ==
  [][ /\ \A s \in PROPERTIES : house_count'[s] \in 0 .. MAX_BUILDINGS
      /\ ( /\ op'.name = "construct_building"
           /\ house_count' # house_count )
           => /\ house_count[op'.space] < MAX_BUILDINGS
              /\ house_count' =
                   [house_count EXCEPT ![op'.space] = @ + 1]
              /\ money' = [money EXCEPT ![op'.seat] = @ - buildCost(op'.space)]
    ]_vars

\* the properties whose building count the step lowered, and the spaces it
\* mortgaged
SoldSpaces == { s \in PROPERTIES : house_count'[s] < house_count[s] }
MortgagedSpaces == { s \in Ownable : is_mortgaged'[s] /\ ~is_mortgaged[s] }

\* C28: liquidation prefers buildings to mortgages: nothing is mortgaged while
\* the player still holds a building; what is raised is half the building
\* cost per building sold and the mortgage value per property mortgaged, all
\* of them the player's own; and nothing is liquidated once the money covers
\* the required amount (the last asset liquidated was still needed).
C28_BuildingsBeforeMortgages ==
  [][ (op'.name \in {"_handle_bankruptcy", "deduct_money"})
        => LET p == op'.seat
               required == op'.amount
           IN /\ MortgagedSpaces # {}
                   => \A i \in 1 .. Len(buildings'[p]) : buildings'[p][i].n = 0
              /\ \A s \in SoldSpaces :
                   \E i \in 1 .. Len(buildings[p]) : buildings[p][i].prop = s
              /\ \A s \in MortgagedSpaces : InSeq(s, properties[p])
              /\ money[p] >= required
                   => SoldSpaces = {} /\ MortgagedSpaces = {}
              /\ (money[p] < required /\ ~is_bankrupt'[p])
                   => /\ money'[p] = money[p] + SoldByStep + MortgagedByStep
                      /\ IF MortgagedSpaces # {}
                         THEN \E s \in MortgagedSpaces :
                                money'[p] - mortgagePrice(s) < required
                         ELSE \E s \in SoldSpaces :
                                money'[p] - (buildCost(s) \div 2) < required
    ]_vars

\* a liquidation that sold a house and then mortgaged Reading Railroad: from
\* no money, 25 for the house and 100 for the railroad
C28_Witness ==
  /\ op.name = "_handle_bankruptcy"
  /\ ~is_bankrupt[op.seat]
  /\ money[op.seat] = (buildCost(1) \div 2) + mortgagePrice(5)
  /\ is_mortgaged[5]
  /\ ~is_mortgaged[12]
  /\ buildings[op.seat] = << >>

\* C29: an auction never gives the bidding turn to a bankrupt player and
\* never sells the property to one: the seat that bids or withdraws is
\* solvent, the seat the turn passes to is solvent, and no bankrupt player's
\* holdings grow.
C29_AuctionSkipsBankrupt ==
  [][ (op'.name \in {"bid", "withdraw"})
        => LET s == op'.space
           IN /\ ~is_bankrupt[Value(auction[s]).current_turn]
              /\ Value(auction'[s]).is_running
                   => ~is_bankrupt'[Value(auction'[s]).current_turn]
              /\ \A p \in Players :
                   is_bankrupt[p] => properties'[p] = properties[p]
    ]_vars

\* the auction of s has no active bidder and never recorded a bid
NoBidder(a, log) ==
  /\ \A i \in 1 .. Len(a.players) : a.players[i] = None
  /\ \A i \in 1 .. Len(log) : log[i].name # "bid"

\* C30: when an auction ends with no active bidder and no bid ever placed,
\* the property stays unowned and purchasable (can_be_purchased asks only
\* that it is unowned and that the buyer has the price), and no player's
\* money or holdings change.
C30_NoBidderAuctionSellsNothing ==
  [][ ( /\ op'.name = "withdraw"
        /\ NoBidder(Value(auction'[op'.space]), auction_log'[op'.space]) )
        => LET s == op'.space
           IN /\ ~Value(auction'[s]).is_running
              /\ ~is_owned'[s]
              /\ \A p \in Players : ~InSeq(s, properties'[p])
              /\ money' = money
              /\ properties' = properties
              /\ buildings' = buildings
    ]_vars

\* the auction was ended by a withdrawal with no bid on record
C30_Witness ==
  /\ op.name = "withdraw"
  /\ auction[op.space] # None
  /\ ~Value(auction[op.space]).is_running
  /\ NoBidder(Value(auction[op.space]), auction_log[op.space])
  /\ Len(auction_log[op.space]) = 1
  /\ ~is_owned[op.space]
  /\ can_be_purchased(World, current_turn, op.space)

\* C31: send_to_jail is unconditional and idempotent: from any player state
\* it leaves the player on the Jail space (index 10) in jail with the counter
\* at 0, changes no money or holdings, and a second application changes
\* nothing more, also for a player already in jail with a non-zero counter.
C31_SendToJailIdempotent ==
  [][ op'.name = "send_to_jail"
        => LET p == op'.seat
           IN /\ location'[p] = JAIL_POSITION
              /\ TrackIndex(location'[p]) = 10
              /\ is_in_jail'[p]
              /\ jail_turn_count'[p] = 0
              /\ money' = money
              /\ properties' = properties
              /\ buildings' = buildings
              /\ \A q \in Players \ {p} :
                   /\ location'[q] = location[q]
                   /\ is_in_jail'[q] = is_in_jail[q]
                   /\ jail_turn_count'[q] = jail_turn_count[q]
              /\ send_to_jail(send_to_jail(World, p), p) = send_to_jail(World, p)
              /\ (op.name = "send_to_jail" /\ op.seat = p)
                   => /\ location' = location
                      /\ is_in_jail' = is_in_jail
                      /\ jail_turn_count' = jail_turn_count
    ]_vars

\* a player already in jail with the counter at its maximum was sent to jail
\* again
C31_Witness ==
  /\ op.name = "send_to_jail"
  /\ op.space = JAIL_POSITION
  /\ op.amount = MAX_JAIL_TURNS
  /\ is_in_jail[op.seat]
  /\ jail_turn_count[op.seat] = 0
  /\ location[op.seat] = JAIL_POSITION

\* the set of the elements of a sequence
Range(q) == { q[i] : i \in 1 .. Len(q) }

\* C32: each deck is drawn without replacement within a shuffle cycle: the
\* cards dealt since the deck was built are all different and, with the
\* cards left in the deck, are exactly the K card ids, so K draws from a
\* fresh deck return every id once; a draw from an empty deck rebuilds the
\* full deck first, so every draw returns a card and a draw is always
\* possible.
C32_DrawWithoutReplacement ==
  [][ op'.name = "deal_card"
        => LET s == op'.space
               card == current_card'[s]
           IN /\ card \in CardIds
              /\ op'.amount = card
              /\ IF Len(deck[s]) = 0
                 THEN /\ dealt'[s] = << card >>
                      /\ Len(deck'[s]) = MaxCards - 1
                 ELSE /\ dealt'[s] = Append(dealt[s], card)
                      /\ card = deck[s][Len(deck[s])]
                      /\ deck'[s] = SubSeq(deck[s], 1, Len(deck[s]) - 1)
              /\ Cardinality(Range(dealt'[s])) = Len(dealt'[s])
              /\ Range(dealt'[s]) \cap Range(deck'[s]) = {}
              /\ Range(dealt'[s]) \cup Range(deck'[s]) = CardIds
              /\ Len(deck'[s]) = 0 => Range(dealt'[s]) = CardIds
              /\ \E fresh \in Shuffles :
                   _draw_card(deck'[s], fresh).card \in CardIds
    ]_vars

\* a deck was emptied, every card dealt once, and the next draw rebuilt it
C32_Witness ==
  /\ op.name = "deal_card"
  /\ Len(dealt[op.space]) = 1
  /\ Len(deck[op.space]) = MaxCards - 1
  /\ current_card[op.space] = op.amount

\* the money of all the players together
RECURSIVE SumMoney(_, _)
SumMoney(m, S) ==
  IF S = {} THEN 0
  ELSE LET q == CHOOSE x \in S : TRUE IN m[q] + SumMoney(m, S \ {q})

\* the players who pay under the card, and whether each has the amount
CanPay(name, p, amount) ==
  IF name = "itsYourBirthday"
  THEN \A q \in Players \ {p} : money[q] >= amount
  ELSE money[p] >= amount * (numPlayers - 1)

\* C33: a group-transfer card whose payers have the money moves exactly its
\* fixed amount between the acting player and each other player: Chairman of
\* the Board gives each other player 50 and costs the acting player
\* 50 x (N - 1); It is your birthday takes 10 from each other player and
\* gives the acting player 10 x (N - 1); the total money of the players is
\* unchanged.
C33_GroupTransfer ==
  [][ ( /\ op'.name \in {"chairmanOfTheBoard", "itsYourBirthday"}
        /\ CanPay(op'.name, op'.seat, op'.amount) )
        => LET p == op'.seat
               gain == IF op'.name = "itsYourBirthday" THEN op'.amount
                       ELSE 0 - op'.amount
           IN /\ \A q \in Players \ {p} : money'[q] = money[q] - gain
              /\ money'[p] = money[p] + gain * (numPlayers - 1)
              /\ SumMoney(money', Players) = SumMoney(money, Players)
    ]_vars

\* C34: when the current player's move ends on an unmortgaged property of
\* another player and the player has the rent, the rent is deducted at the
\* landing, whoever stood on, began a turn on or left the space before, and
\* it is not deducted again by the updates that follow.
C34_RentChargedAtEveryLanding ==
  [][ /\ \A kind \in {"color", "railroad", "utility"} :
           LET p == current_turn
               s == location[p]
               rent == calculate_rent(s, update_rent_level(World, numPlayers, s))
           IN (LandsOn(kind) /\ money[p] >= rent)
                => money'[p] = money[p] - rent
      /\ (op.name = "tick" /\ op'.name = "tick") => money' = money
    ]_vars

\* C35: between two turn advances the current player rolls at most once: a
\* roll (a roll-and-move or a jail roll) is taken only when the player has
\* not rolled since the turn was advanced, also when the roll intent arrives
\* before the next state update.
C35_OneRollPerTurn ==
  [][ op'.name = "roll" => ~dice_rolled ]_vars

\* the controller awaits the end of the turn: the current player has rolled
\* and the window of the space it stands on is not pending
AwaitingEndTurn == dice_rolled /\ ~should_show_ui[current_turn_location]

\* C36: an end-turn intent takes effect only when the controller awaits the
\* end of the turn: issued before the current player has rolled, or while
\* the landed space's window is pending, it changes neither the current
\* player nor any turn flag.
C36_EndTurnOnlyWhenAwaited ==
  [][ (op'.name \in {"end_turn", "RecursionError"} /\ ~AwaitingEndTurn)
        => /\ current_turn' = current_turn
           /\ is_current_turn' = is_current_turn
           /\ dice_rolled' = dice_rolled
    ]_vars

\* C37: when an auction settles with a winner, the winner pays exactly the
\* winning bid, out of its money and of what liquidation raises when the bid
\* exceeds the money, and its money is not negative afterwards.
C37_WinnerPaysBid ==
  [][ (op'.name \in {"bid", "withdraw"})
        => LET s == op'.space
               a == Value(auction[s])
               a2 == Value(auction'[s])
           IN \A p \in Players :
                ( /\ a.is_running
                  /\ ~a2.is_running
                  /\ properties'[p] = Append(properties[p], s) )
                  => /\ money'[p] =
                          money[p] + SoldByStep + MortgagedByStep
                            - Value(a2.players[p + 1])
                     /\ money'[p] >= 0
    ]_vars

\* C38: rent charged for a property is paid to its owner: the owner's money
\* grows by exactly what the paying player loses, so the payment leaves the
\* total money of the players unchanged.
C38_RentPaidToOwner ==
  [][ \A kind \in {"color", "railroad", "utility"} :
        LET p == current_turn
            s == location[p]
            paid == money[p] - money'[p]
        IN (LandsOn(kind) /\ paid > 0)
             => /\ \E q \in HoldersOf(s) : money'[q] = money[q] + paid
                /\ SumMoney(money', Players) = SumMoney(money, Players)
    ]_vars

\* C39: the building counts of the properties of one colour set held by one
\* player differ by at most 1 in every state, after constructions and after
\* the building sales of a liquidation.
C39_EvenBuildings ==
  \A p \in Players :
    \A s1, s2 \in PROPERTIES :
      ( /\ InSeq(s1, properties[p])
        /\ InSeq(s2, properties[p])
        /\ color(s1) = color(s2) )
        => house_count[s1] - house_count[s2] <= 1

\* C40: between operations a player whose jail flag is set stands on the
\* Jail space (track index 10), a player whose jail flag is clear has the
\* jail-turn counter 0, and the counter is always within 0 .. 2.
C40_JailStateConsistent ==
  \A p \in Players :
    /\ is_in_jail[p]
         => (location[p] = JAIL_POSITION /\ TrackIndex(location[p]) = 10)
    /\ ~is_in_jail[p] => jail_turn_count[p] = 0
    /\ jail_turn_count[p] \in 0 .. MAX_JAIL_TURNS

\* a player who sat in jail with two failed rolls has failed a third, paid
\* the bail and left with the counter cleared
C40_Witness ==
  /\ op.name = "roll"
  /\ Die1 # Die2
  /\ ~is_in_jail[op.seat]
  /\ jail_turn_count[op.seat] = 0
  /\ location[op.seat] = 10 + Die1 + Die2
  /\ money[op.seat] = STARTING_MONEY - BAIL_AMOUNT

====
